---- MODULE Spec2Model ----
(***************************************************************************)
(* pyftpkit: the asynchronous FTP connection pool (FTPPoolExecutor) and    *)
(* the parallel directory walk built on it (FTPFileSystem.walk).           *)
(*                                                                         *)
(* Every coroutine is a task of one event loop: a task runs atomically     *)
(* from one real suspension to the next, so an action is the code between  *)
(* two suspension points.  asyncio.Queue.get suspends only on an empty     *)
(* queue, asyncio.Queue.put only on a full one, asyncio.Lock.acquire only  *)
(* on a held lock; run_in_executor always suspends.                        *)
(***************************************************************************)
EXTENDS Integers, Sequences, FiniteSets, TLC

\* ------------------------------------------------------------------ bounds
max_connections == 2
NumTasks == 3
MaxOpens == 2
MaxDirs == 3
MaxStops == 1
MaxDepth == 2
MaxCalls == 2
MaxLen == 3
MaxJobs == 3
MaxInterval == 3

Tasks == 1..NumTasks
Gens == 1..MaxOpens
\* Connections are numbered by the open() that created them.
PoolConns == 1..(MaxOpens * max_connections)
\* A connection made by a direct _connect() call, outside open().
Foreign == MaxOpens * max_connections + 1
Conn == PoolConns \cup {Foreign}

VARIABLES
    closed,        \* FTPPoolExecutor._closed
    cur,           \* which queue object self._pool is; 0: attribute not set
    queues,        \* contents of every asyncio.Queue created by open()
    tracked,       \* FTPPoolExecutor._connections
    lock,          \* FTPPoolExecutor._lock: the task holding it, or 0
    pc,            \* where each task is suspended
    held,          \* the connection(s) each task has checked out
    waitq,         \* the queue a suspended get()/put() waits on
    last,          \* the call that completed last and how it ended
    connectCount,  \* number of _connect invocations
    closeCalls,    \* number of _close_connection invocations per connection
    pooled,        \* every connection an open() has enqueued so far
    \* ---- the remote tree and one walk() over it
    parent,        \* the remote tree: parent[d] of directory d; 1 is the root
    failDir,       \* the directory whose listing fails; 0: none
    max_workers,   \* ConnectionParameters.max_workers
    queue,         \* walk: the task queue of directories to list
    unfinished,    \* walk: queue._unfinished_tasks, which queue.join() awaits
    output_queue,  \* walk: the output queue (a tuple is named by its directory)
    stop_event,    \* walk: stop_event.is_set()
    wpc,           \* walk: where each worker coroutine is suspended
    dirpath,       \* walk: the directory a worker is listing
    get_output,    \* walk: state of the current get_output_task
    output,        \* walk: result of the current get_output_task
    traversal,     \* walk: traversal_task.done()
    dpc,           \* walk: where the generator (driver) is
    seen,          \* walk: finished workers already removed from pending_tasks
    yielded,       \* walk: directories of the tuples yielded so far, in order
    failed,        \* walk: a listing has raised
    \* ---- what a stopped walk leaves behind
    busy,          \* connections a blocking FTP call of a cancelled coroutine
                   \* is still running on, on a thread of the executor
    stops,         \* number of walks the consumer has stopped early
    \* ---- calls of listdir, rm, makedirs and rmtree
    sdirs,         \* the directories on the server besides "/", as paths
    fsop,          \* the FTPFileSystem method each task is in, or "none"
    fspc,          \* where each task is suspended in that method
    todo,          \* the directories a makedirs or rmtree has still to visit
    res,           \* how the call that finished last ended
    cmds,          \* the FTP commands completed by makedirs, in order
    arg,           \* the paths argument of the last makedirs call
    before,        \* sdirs when that call began
    calls,         \* number of makedirs calls begun
    rmpc,          \* where an rmtree call is, or "none"
    files,         \* the directories of the tree that hold a file
    gone,          \* the directories of the tree removed by RMD
    slash,         \* the root of the tree is the server's "/"
    \* ---- one call of FTPLoader.download or FTPLoader.upload
    ldin,          \* the method called and its arguments
    ldpc,          \* where the call is
    jobs,          \* the transfers scheduled on the executor: <<src, dst>>
    ndone,         \* "index": transfers completed so far
    log,           \* the messages logged, in order
    lderr,         \* the exception the call ended with, or "none"
    ldfs,          \* the FTPFileSystem of the call: "none", "open", "closed"
    mkarg,         \* the argument of the makedirs call of upload
    mkres,         \* how that makedirs ended, or "none"
    log_interval,  \* FTPLoader._log_interval
    \* ---- an upload followed by a download of what it stored
    lfiles,        \* the regular files of the local file system, as rglob
                   \* enumerates them
    remote,        \* the files the server stores, as absolute paths
    fetched,       \* the local files written by completed downloads
    \* ---- FTPFileSystem._listdir on the lines of one LIST reply
    entries,       \* the lines retrlines has collected
    nline,         \* the lines the for loop has been through
    dirs,          \* "dirs"
    nondirs,       \* "nondirs"
    lsexc,         \* the exception that left the loop, or "none"
    \* ---- one PathTrie
    pathtrie,      \* the nodes of the trie, in the order they were created
    inserted,      \* the normalized paths inserted since the last clear();
                   \* "" for an empty input string
    cleared,       \* clear() has been called
    \* ---- one call of PycURL.download or PycURL.upload
    curlin,        \* the method called and what it will meet
    curlpc,        \* where the call is
    curl,          \* the handle of the call: "none", "open", "closed"
    closes,        \* number of curl.close() calls
    curlres,       \* how the call ended
    \* ---- FTPLoader.log_interval
    built,         \* how the loader was constructed
    setarg,        \* the value last assigned to log_interval, if any
    setprev,       \* log_interval before that assignment
    setraised,     \* that assignment raised ValueError
    \* ---- calls of the pure helpers
    dpath,         \* the argument of _is_dirpath
    isdirpath,     \* what _is_dirpath returned, if it was called
    urlin,         \* the argument of _ensure_ftp_url and the port
    url,           \* what _ensure_ftp_url returned, if it was called
    \* ---- one call of ConnectionParameters.from_arguments
    environ,       \* the PYFTPKIT_ variables of the environment and .env
    arguments,     \* the argparse namespace of the command line
    settings       \* what from_arguments returned or raised, if called

poolvars == <<closed, cur, queues, tracked, lock, pc, held, waitq, last,
              connectCount, closeCalls, pooled>>

treevars == <<parent, failDir, max_workers>>

walkvars == <<queue, unfinished, output_queue, stop_event, wpc, dirpath,
              get_output, output, traversal, dpc, seen, yielded, failed>>

stopvars == <<busy, stops>>

histvars == <<cmds, arg, before, calls>>

rmvars == <<rmpc, files, gone, slash>>

tripvars == <<lfiles, remote, fetched>>

listvars == <<entries, nline, dirs, nondirs, lsexc>>

trievars == <<pathtrie, inserted, cleared>>

curlvars == <<curlin, curlpc, curl, closes, curlres>>

setvars == <<built, setarg, setprev, setraised>>

purevars == <<dpath, isdirpath, urlin, url, environ, arguments, settings>>

ldvars == <<ldin, ldpc, jobs, ndone, log, lderr, ldfs, mkarg, mkres,
            log_interval, tripvars, listvars, trievars, curlvars,
            setvars, purevars>>

fsvars == <<sdirs, fsop, fspc, todo, res, histvars, rmvars, ldvars>>

vars == <<poolvars, treevars, walkvars, stopvars, fsvars>>

Range(s) == {s[i] : i \in 1..Len(s)}

\* The connections returned by the gather of the g-th open(), in order.
NewConns(g) == [i \in 1..max_connections |-> (g - 1) * max_connections + i]

InFlight == UNION {held[t] : t \in Tasks}

\* ------------------------------------------------------ asyncio.Queue
\* Variant: the head is returned but stays in the queue.
QueueGetKeep(q) == [item |-> Head(q), rest |-> q]

\* get_nowait: the head is removed from the queue and returned.
QueueGet(q) == [item |-> Head(q), rest |-> Tail(q)]

\* put_nowait: the item is appended.
QueuePut(q, c) == Append(q, c)

QueueFull(q) == Len(q) >= max_connections

\* The loop "for connection in connections: await self._pool.put(connection)".
RECURSIVE PutAll(_, _)
PutAll(q, s) == IF s = <<>> THEN q ELSE PutAll(QueuePut(q, Head(s)), Tail(s))

\* No walk() has been called.
NoWalk ==
    /\ queue = <<>>
    /\ unfinished = 0
    /\ output_queue = <<>>
    /\ stop_event = FALSE
    /\ wpc = [t \in Tasks |-> "none"]
    /\ dirpath = [t \in Tasks |-> 0]
    /\ get_output = "none"
    /\ output = 0
    /\ traversal = FALSE
    /\ dpc = "idle"
    /\ seen = {}
    /\ yielded = <<>>
    /\ failed = FALSE
    /\ busy = {}
    /\ stops = 0

\* The local file system of an upload: one file, and one directory that
\* holds two files; no other path exists.
LocalFile == <<"a", ".", "a">>
LocalDir == <<"a">>
LocalDirFiles == <<<<"a", "/", "a", ".", "a">>, <<"a", "/", ".", "a">>>>

\* No LIST reply is being parsed.
NoListing ==
    /\ entries = <<>>
    /\ nline = 0
    /\ dirs = <<>>
    /\ nondirs = <<>>
    /\ lsexc = "none"

\* A new PathTrie.
NoTrie ==
    /\ pathtrie = <<>>
    /\ inserted = <<>>
    /\ cleared = FALSE

\* No PycURL call has been made.
NoCurl ==
    /\ curlin = [op |-> "none"]
    /\ curlpc = "idle"
    /\ curl = "none"
    /\ closes = 0
    /\ curlres = "none"

\* The names of the connection parameters that the environment and the
\* command line can give.
ParameterKeys ==
    {"host", "port", "username", "password", "timeout", "max_connections",
     "max_workers"}

\* A value that is not given: an unset variable, a flag left at None.
NotGiven == [k \in ParameterKeys |-> <<>>]

\* from_arguments has not been called, and nothing is given.
NoArguments ==
    /\ environ = NotGiven
    /\ arguments = NotGiven
    /\ settings = <<>>

\* Neither _is_dirpath nor _ensure_ftp_url is being called.
NoPure ==
    /\ dpath = <<>>
    /\ isdirpath = <<>>
    /\ urlin = [path |-> <<>>, port |-> 0]
    /\ url = <<>>
    /\ NoArguments

\* log_interval has not been assigned to.
NoSet ==
    /\ built = "default"
    /\ setarg = <<>>
    /\ setprev = 0
    /\ setraised = FALSE

\* No FTPLoader call has been made.
NoBatch ==
    /\ remote = {}
    /\ fetched = {}
    /\ ldin = [op |-> "none"]
    /\ ldpc = "idle"
    /\ jobs = <<>>
    /\ ndone = 0
    /\ log = <<>>
    /\ lderr = "none"
    /\ ldfs = "none"
    /\ mkarg = {}
    /\ mkres = "none"

NoLoad ==
    /\ NoBatch
    /\ NoListing
    /\ NoTrie
    /\ NoCurl
    /\ NoSet
    /\ NoPure
    /\ lfiles = <<LocalFile>> \o LocalDirFiles

\* No method of FTPFileSystem has been called.
NoFsCalls ==
    /\ fsop = [t \in Tasks |-> "none"]
    /\ fspc = [t \in Tasks |-> "idle"]
    /\ todo = [t \in Tasks |-> <<>>]
    /\ res = "none"
    /\ cmds = <<>>
    /\ arg = <<>>
    /\ before = {}
    /\ calls = 0
    /\ gone = {}

NoCalls == NoLoad /\ NoFsCalls

NoFs ==
    /\ NoCalls
    /\ log_interval = 1
    /\ sdirs = {}
    /\ rmpc = "none"
    /\ files = {}
    /\ slash = FALSE

\* ------------------------------------------------------------- __init__
Init ==
    /\ closed = TRUE
    /\ cur = 0
    /\ queues = [g \in Gens |-> <<>>]
    /\ tracked = {}
    /\ lock = 0
    /\ pc = [t \in Tasks |-> "idle"]
    /\ held = [t \in Tasks |-> {}]
    /\ waitq = [t \in Tasks |-> 0]
    /\ last = "none"
    /\ connectCount = 0
    /\ closeCalls = [c \in Conn |-> 0]
    /\ pooled = {}
    /\ parent = <<0>>
    /\ failDir = 0
    /\ max_workers = NumTasks
    /\ NoWalk
    /\ NoFs

\* ----------------------------------------------------------------- open
\* The lock is taken, a new queue replaces self._pool and max_connections
\* connect jobs are submitted; the task then awaits their gather.
EnterOpen(t) ==
    /\ cur < MaxOpens
    /\ lock' = t
    /\ cur' = cur + 1
    /\ queues' = [queues EXCEPT ![cur + 1] = <<>>]
    /\ connectCount' = connectCount + max_connections
    /\ pc' = [pc EXCEPT ![t] = "opening"]
    /\ UNCHANGED <<closed, tracked, held, waitq, last, closeCalls, pooled>>

\* Variant: open() without the "if not self._closed: return" guard.
OpenAlways(t) ==
    /\ pc[t] = "idle"
    /\ IF lock = 0
       THEN EnterOpen(t)
       ELSE /\ pc' = [pc EXCEPT ![t] = "open_lock"]
            /\ UNCHANGED <<closed, cur, queues, tracked, lock, held, waitq,
                           last, connectCount, closeCalls, pooled>>

Open(t) ==
    /\ pc[t] = "idle"
    /\ IF ~closed
       THEN /\ last' = "open:noop"
            /\ UNCHANGED <<closed, cur, queues, tracked, lock, pc, held, waitq,
                           connectCount, closeCalls, pooled>>
       ELSE IF lock = 0
            THEN EnterOpen(t)
            ELSE /\ pc' = [pc EXCEPT ![t] = "open_lock"]
                 /\ UNCHANGED <<closed, cur, queues, tracked, lock, held, waitq,
                                last, connectCount, closeCalls, pooled>>

OpenLocked(t) ==
    /\ pc[t] = "open_lock"
    /\ lock = 0
    /\ EnterOpen(t)

\* _open_connections after the gather: every job succeeded in time ("ok"),
\* a job raised FTPError ("failed"), or wait_for timed out ("timeout").
OpenOutcomes == {"ok", "failed", "timeout"}

\* Variant: _closed is cleared whether or not the gather succeeded.
OpenFinishFlag(t, outcome) ==
    /\ pc[t] = "opening"
    /\ lock' = 0
    /\ pc' = [pc EXCEPT ![t] = "idle"]
    /\ closed' = FALSE
    /\ IF outcome = "ok"
       THEN /\ tracked' = tracked \cup Range(NewConns(cur))
            /\ queues' = [queues EXCEPT ![cur] = PutAll(@, NewConns(cur))]
            /\ pooled' = pooled \cup Range(NewConns(cur))
            /\ last' = "open:ok"
       ELSE /\ last' = "open:FTPError"
            /\ UNCHANGED <<queues, tracked, pooled>>
    /\ UNCHANGED <<cur, held, waitq, connectCount, closeCalls>>

OpenFinish(t, outcome) ==
    /\ pc[t] = "opening"
    /\ lock' = 0
    /\ pc' = [pc EXCEPT ![t] = "idle"]
    /\ IF outcome = "ok"
       THEN /\ tracked' = tracked \cup Range(NewConns(cur))
            /\ queues' = [queues EXCEPT ![cur] =
                              PutAll(@, NewConns(cur))]
            /\ pooled' = pooled \cup Range(NewConns(cur))
            /\ closed' = FALSE
            /\ last' = "open:ok"
       ELSE /\ last' = "open:FTPError"
            /\ UNCHANGED <<closed, queues, tracked, pooled>>
    /\ UNCHANGED <<cur, held, waitq, connectCount, closeCalls>>

\* ------------------------------------------------------------------ get
GetRaises == closed \/ cur = 0

Get(t) ==
    /\ pc[t] = "idle"
    /\ held[t] = {}
    /\ IF GetRaises
       THEN /\ last' = "get:RuntimeError"
            /\ UNCHANGED <<queues, pc, held, waitq>>
       ELSE IF queues[cur] # <<>>
            THEN /\ held' = [held EXCEPT ![t] = {QueueGet(queues[cur]).item}]
                 /\ queues' = [queues EXCEPT ![cur] = QueueGet(@).rest]
                 /\ last' = "get:ok"
                 /\ UNCHANGED <<pc, waitq>>
            ELSE /\ pc' = [pc EXCEPT ![t] = "getting"]
                 /\ waitq' = [waitq EXCEPT ![t] = cur]
                 /\ UNCHANGED <<queues, held, last>>
    /\ UNCHANGED <<closed, cur, tracked, lock, connectCount, closeCalls, pooled>>

\* A get() suspended on an empty queue resumes once that queue holds an item.
GetResume(t) ==
    /\ pc[t] = "getting"
    /\ queues[waitq[t]] # <<>>
    /\ held' = [held EXCEPT ![t] = {QueueGet(queues[waitq[t]]).item}]
    /\ queues' = [queues EXCEPT ![waitq[t]] = QueueGet(@).rest]
    /\ pc' = [pc EXCEPT ![t] = "idle"]
    /\ waitq' = [waitq EXCEPT ![t] = 0]
    /\ last' = "get:ok"
    /\ UNCHANGED <<closed, cur, tracked, lock, connectCount, closeCalls, pooled>>

\* -------------------------------------------------------------- release
\* Variant: only the missing queue is checked, not _closed.
ReleaseRaisesNoPool == cur = 0

ReleaseRaises == closed \/ cur = 0

\* Variants: the tracking check never, or always, passes.
IsTrackedNever(c) == FALSE
IsTrackedAlways(c) == TRUE

IsTracked(c) == c \in tracked

Release(t, c) ==
    /\ pc[t] = "idle"
    /\ IF ReleaseRaises
       THEN /\ last' = "release:RuntimeError"
            /\ held' = [held EXCEPT ![t] = @ \ {c}]
            /\ UNCHANGED <<queues, pc, waitq>>
       ELSE IF ~IsTracked(c)
            THEN /\ last' = "release:untracked"
                 /\ held' = [held EXCEPT ![t] = @ \ {c}]
                 /\ UNCHANGED <<queues, pc, waitq>>
            ELSE IF ~QueueFull(queues[cur])
                 THEN /\ queues' = [queues EXCEPT ![cur] = QueuePut(@, c)]
                      /\ held' = [held EXCEPT ![t] = @ \ {c}]
                      /\ last' = "release:ok"
                      /\ UNCHANGED <<pc, waitq>>
                 ELSE /\ pc' = [pc EXCEPT ![t] = "putting"]
                      /\ held' = [held EXCEPT ![t] = {c}]
                      /\ waitq' = [waitq EXCEPT ![t] = cur]
                      /\ UNCHANGED <<queues, last>>
    /\ UNCHANGED <<closed, cur, tracked, lock, connectCount, closeCalls, pooled>>

\* A put() suspended on a full queue resumes once that queue has room.
PutResume(t) ==
    /\ pc[t] = "putting"
    /\ ~QueueFull(queues[waitq[t]])
    /\ queues' = [queues EXCEPT ![waitq[t]] = QueuePut(@, CHOOSE c \in held[t] : TRUE)]
    /\ held' = [held EXCEPT ![t] = {}]
    /\ pc' = [pc EXCEPT ![t] = "idle"]
    /\ waitq' = [waitq EXCEPT ![t] = 0]
    /\ last' = "release:ok"
    /\ UNCHANGED <<closed, cur, tracked, lock, connectCount, closeCalls, pooled>>

\* ---------------------------------------------------------------- close
\* The connections close() collects: the drained queue and the tracking set.
Collected == Range(queues[cur]) \cup tracked

\* With the lock held: return at once on a closed pool; otherwise drain the
\* queue, clear the tracking set, submit one _close_connection job for each
\* collected connection and await their gather.
\* Variant: the tracking set is not cleared.
EnterCloseKeepTracked(t) ==
    IF closed
    THEN /\ last' = "close:noop"
         /\ pc' = [pc EXCEPT ![t] = "idle"]
         /\ UNCHANGED <<closed, cur, queues, tracked, lock, held, waitq,
                        connectCount, closeCalls, pooled>>
    ELSE /\ lock' = t
         /\ queues' = [queues EXCEPT ![cur] = <<>>]
         /\ closeCalls' = [c \in Conn |->
                              IF c \in Collected THEN closeCalls[c] + 1
                                                 ELSE closeCalls[c]]
         /\ pc' = [pc EXCEPT ![t] = "closing"]
         /\ UNCHANGED <<closed, cur, tracked, held, waitq, last, connectCount,
                        pooled>>

\* Variant: the ready-queue is not drained.
EnterCloseNoDrain(t) ==
    IF closed
    THEN /\ last' = "close:noop"
         /\ pc' = [pc EXCEPT ![t] = "idle"]
         /\ UNCHANGED <<closed, cur, queues, tracked, lock, held, waitq,
                        connectCount, closeCalls, pooled>>
    ELSE /\ lock' = t
         /\ tracked' = {}
         /\ closeCalls' = [c \in Conn |->
                              IF c \in tracked THEN closeCalls[c] + 1
                                               ELSE closeCalls[c]]
         /\ pc' = [pc EXCEPT ![t] = "closing"]
         /\ UNCHANGED <<closed, cur, queues, held, waitq, last, connectCount,
                        pooled>>

EnterClose(t) ==
    IF closed
    THEN /\ last' = "close:noop"
         /\ pc' = [pc EXCEPT ![t] = "idle"]
         /\ UNCHANGED <<closed, cur, queues, tracked, lock, held, waitq,
                        connectCount, closeCalls, pooled>>
    ELSE /\ lock' = t
         /\ queues' = [queues EXCEPT ![cur] = <<>>]
         /\ tracked' = {}
         /\ closeCalls' = [c \in Conn |->
                              IF c \in Collected THEN closeCalls[c] + 1
                                                 ELSE closeCalls[c]]
         /\ pc' = [pc EXCEPT ![t] = "closing"]
         /\ UNCHANGED <<closed, cur, held, waitq, last, connectCount, pooled>>

Close(t) ==
    /\ pc[t] = "idle"
    /\ IF cur = 0
       THEN /\ last' = "close:nopool"
            /\ UNCHANGED <<closed, cur, queues, tracked, lock, pc, held, waitq,
                           connectCount, closeCalls, pooled>>
       ELSE IF lock = 0
            THEN EnterClose(t)
            ELSE /\ pc' = [pc EXCEPT ![t] = "close_lock"]
                 /\ UNCHANGED <<closed, cur, queues, tracked, lock, held, waitq,
                                last, connectCount, closeCalls, pooled>>

CloseLocked(t) ==
    /\ pc[t] = "close_lock"
    /\ lock = 0
    /\ EnterClose(t)

\* The gather of the _close_connection jobs: all returned ("ok"), or one
\* raised FTPError ("failed"), which leaves the lock without setting _closed.
CloseOutcomes == {"ok", "failed"}

CloseFinish(t, outcome) ==
    /\ pc[t] = "closing"
    /\ lock' = 0
    /\ pc' = [pc EXCEPT ![t] = "idle"]
    /\ IF outcome = "ok"
       THEN /\ closed' = TRUE
            /\ last' = "close:ok"
       ELSE /\ last' = "close:FTPError"
            /\ UNCHANGED closed
    /\ UNCHANGED <<cur, queues, tracked, held, waitq, connectCount, closeCalls,
                   pooled>>

\* pool._connect() called directly and its result added to pool._connections
\* on a pool that was never opened.
TrackDirect ==
    /\ cur = 0
    /\ Foreign \notin tracked
    /\ tracked' = tracked \cup {Foreign}
    /\ connectCount' = connectCount + 1
    /\ UNCHANGED <<closed, cur, queues, lock, pc, held, waitq, last, closeCalls,
                   pooled>>

\* ------------------------------------------------ the pool and its clients
\* The owner calls open() and close() one after the other, close() only
\* once every checked-out connection has been released; several close()
\* calls may overlap.  A client releases what it holds, or a connection the
\* pool never created.
OpenInProgress == \E t \in Tasks : pc[t] \in {"open_lock", "opening"}
CloseInProgress == \E t \in Tasks : pc[t] \in {"close_lock", "closing"}

OwnerOpen(t) == ~OpenInProgress /\ ~CloseInProgress /\ Open(t)
OwnerClose(t) == ~OpenInProgress /\ InFlight = {} /\ Close(t)
ClientRelease(t) == \E c \in held[t] \cup {Foreign} : Release(t, c)

\* Steps of the pool alone leave the tree and the walk as they are.
WalkIdle == UNCHANGED <<treevars, walkvars, stopvars, fsvars>>

NextPool ==
    \/ \E t \in Tasks : OwnerOpen(t) /\ WalkIdle
    \/ \E t \in Tasks : \E o \in OpenOutcomes : OpenFinish(t, o) /\ WalkIdle
    \/ \E t \in Tasks : Get(t) /\ WalkIdle
    \/ \E t \in Tasks : GetResume(t) /\ WalkIdle
    \/ \E t \in Tasks : ClientRelease(t) /\ WalkIdle
    \/ \E t \in Tasks : OwnerClose(t) /\ WalkIdle
    \/ \E t \in Tasks : CloseLocked(t) /\ WalkIdle
    \/ \E t \in Tasks : \E o \in CloseOutcomes : CloseFinish(t, o) /\ WalkIdle

SpecPool == Init /\ [][NextPool]_vars

\* Several tasks call open() on the closed pool at the same time; clients
\* get and release connections once a call has succeeded.
NextOpens ==
    \/ \E t \in Tasks : Open(t) /\ WalkIdle
    \/ \E t \in Tasks : OpenLocked(t) /\ WalkIdle
    \/ \E t \in Tasks : \E o \in OpenOutcomes : OpenFinish(t, o) /\ WalkIdle
    \/ \E t \in Tasks : Get(t) /\ WalkIdle
    \/ \E t \in Tasks : GetResume(t) /\ WalkIdle
    \/ \E t \in Tasks : ClientRelease(t) /\ WalkIdle

SpecOpens == Init /\ [][NextOpens]_vars

\* open(), get(), release() and close() called by any task at any time.
NextShared ==
    \/ \E t \in Tasks : Open(t) /\ WalkIdle
    \/ \E t \in Tasks : OpenLocked(t) /\ WalkIdle
    \/ \E t \in Tasks : \E o \in OpenOutcomes : OpenFinish(t, o) /\ WalkIdle
    \/ \E t \in Tasks : Get(t) /\ WalkIdle
    \/ \E t \in Tasks : GetResume(t) /\ WalkIdle
    \/ \E t \in Tasks : ClientRelease(t) /\ WalkIdle
    \/ \E t \in Tasks : PutResume(t) /\ WalkIdle
    \/ \E t \in Tasks : Close(t) /\ WalkIdle
    \/ \E t \in Tasks : CloseLocked(t) /\ WalkIdle
    \/ \E t \in Tasks : \E o \in CloseOutcomes : CloseFinish(t, o) /\ WalkIdle

SpecShared == Init /\ [][NextShared]_vars

\* The steps of the task t that the event loop takes by itself once they
\* are possible: a waiter of the lock or of a queue is resumed, a gather
\* completes.
LoopStep(t) ==
    \/ OpenLocked(t) /\ WalkIdle
    \/ \E o \in OpenOutcomes : OpenFinish(t, o) /\ WalkIdle
    \/ GetResume(t) /\ WalkIdle
    \/ PutResume(t) /\ WalkIdle
    \/ CloseLocked(t) /\ WalkIdle
    \/ \E o \in CloseOutcomes : CloseFinish(t, o) /\ WalkIdle

\* The same calls under the event loop, which runs every task that is
\* ready; when the tasks call is up to them.
SpecSharedLive == SpecShared /\ \A t \in Tasks : WF_vars(LoopStep(t))

NextRaw == NextPool \/ (TrackDirect /\ WalkIdle)

SpecRaw == Init /\ [][NextRaw]_vars

\* =============================================================== walk
\* The remote trees: directory 1 is the root, every other directory lies
\* below one with a smaller number.
Trees ==
    {p \in UNION {[1..n -> 0..(n - 1)] : n \in 1..MaxDirs} :
        /\ p[1] = 0
        /\ \A i \in 2..Len(p) : p[i] \in 1..(i - 1)}

Dirs == 1..Len(parent)

\* The subdirectories _listdir returns for d, in listing order.
Subdirs(d) == SelectSeq([i \in 1..Len(parent) |-> i], LAMBDA i : parent[i] = d)

Workers == 1..max_workers

WorkerDone(w) == wpc[w] \in {"done", "raised"}

\* The workers run until the generator's finally block cancels them.
WalkRunning == dpc \in {"wait", "yield_loop", "yield_final", "yield_drain"}

WalkCleanup == dpc \in {"cleanup", "cleanup_raised", "cleanup_stopped"}

\* An open pool, as FTPFileSystem.__aenter__ leaves it, and a remote tree.
OpenPool ==
    /\ closed = FALSE
    /\ cur = 1
    /\ queues = [g \in Gens |-> IF g = 1 THEN NewConns(1) ELSE <<>>]
    /\ tracked = Range(NewConns(1))
    /\ lock = 0
    /\ pc = [t \in Tasks |-> "idle"]
    /\ held = [t \in Tasks |-> {}]
    /\ waitq = [t \in Tasks |-> 0]
    /\ last = "open:ok"
    /\ connectCount = max_connections
    /\ closeCalls = [c \in Conn |-> 0]
    /\ pooled = Range(NewConns(1))

InitWalk ==
    /\ OpenPool
    /\ parent \in Trees
    /\ failDir \in 0..Len(parent)
    /\ max_workers \in 1..NumTasks
    /\ NoWalk
    /\ NoFs

\* walk() up to its first suspension: the root is queued, the workers, the
\* join task and the first get_output_task are created.
StartWalk ==
    /\ dpc = "idle"
    /\ queue' = <<1>>
    /\ unfinished' = 1
    /\ output_queue' = <<>>
    /\ stop_event' = FALSE
    /\ wpc' = [t \in Tasks |-> IF t \in Workers THEN "start" ELSE "none"]
    /\ get_output' = "pending"
    /\ traversal' = FALSE
    /\ dpc' = "wait"
    /\ UNCHANGED <<dirpath, output, seen, yielded, failed>>
    /\ UNCHANGED <<poolvars, treevars>>

\* --------------------------------------------------------------- _worker
\* The head of "while not stop_event.is_set()" for a worker that holds a
\* connection: leave the loop and release it, or wait for a directory.
LoopHead(w, stopped) ==
    IF stopped
    THEN /\ \E c \in held[w] : Release(w, c)
         /\ wpc' = [wpc EXCEPT ![w] = IF ReleaseRaises THEN "raised" ELSE "done"]
    ELSE /\ wpc' = [wpc EXCEPT ![w] = "wait"]
         /\ UNCHANGED poolvars

\* A worker's first step: ftp = await self._pool.get().
WorkerStart(w) ==
    /\ WalkRunning
    /\ wpc[w] = "start"
    /\ IF GetRaises
       THEN /\ Get(w)
            /\ wpc' = [wpc EXCEPT ![w] = "raised"]
       ELSE IF queues[cur] = <<>>
            THEN /\ Get(w)
                 /\ wpc' = [wpc EXCEPT ![w] = "acquire"]
            ELSE IF stop_event
                 THEN \* acquired and released at once
                      /\ queues' = [queues EXCEPT ![cur] =
                                       QueuePut(QueueGet(@).rest, QueueGet(@).item)]
                      /\ last' = "release:ok"
                      /\ wpc' = [wpc EXCEPT ![w] = "done"]
                      /\ UNCHANGED <<closed, cur, tracked, lock, pc, held, waitq,
                                     connectCount, closeCalls, pooled>>
                 ELSE /\ Get(w)
                      /\ wpc' = [wpc EXCEPT ![w] = "wait"]
    /\ UNCHANGED <<queue, unfinished, output_queue, stop_event, dirpath,
                   get_output, output, traversal, dpc, seen, yielded, failed>>
    /\ UNCHANGED treevars

\* The suspended get() returns a connection.
WorkerAcquired(w) ==
    /\ WalkRunning
    /\ wpc[w] = "acquire"
    /\ pc[w] = "getting"
    /\ queues[waitq[w]] # <<>>
    /\ IF stop_event
       THEN \* acquired and released at once
            /\ queues' = [queues EXCEPT ![waitq[w]] =
                             QueuePut(QueueGet(@).rest, QueueGet(@).item)]
            /\ pc' = [pc EXCEPT ![w] = "idle"]
            /\ waitq' = [waitq EXCEPT ![w] = 0]
            /\ last' = "release:ok"
            /\ wpc' = [wpc EXCEPT ![w] = "done"]
            /\ UNCHANGED <<closed, cur, tracked, lock, held, connectCount,
                           closeCalls, pooled>>
       ELSE /\ GetResume(w)
            /\ wpc' = [wpc EXCEPT ![w] = "wait"]
    /\ UNCHANGED <<queue, unfinished, output_queue, stop_event, dirpath,
                   get_output, output, traversal, dpc, seen, yielded, failed>>
    /\ UNCHANGED treevars

\* wait_for(queue.get()) returns a directory; _listdir starts on a thread.
WorkerDequeue(w) ==
    /\ WalkRunning
    /\ wpc[w] = "wait"
    /\ queue # <<>>
    /\ dirpath' = [dirpath EXCEPT ![w] = Head(queue)]
    /\ queue' = Tail(queue)
    /\ wpc' = [wpc EXCEPT ![w] = "list"]
    /\ UNCHANGED <<unfinished, output_queue, stop_event, get_output, output,
                   traversal, dpc, seen, yielded, failed>>
    /\ UNCHANGED <<poolvars, treevars>>

\* wait_for(queue.get()) times out on an empty queue with the stop flag set.
WorkerTimeout(w) ==
    /\ WalkRunning
    /\ wpc[w] = "wait"
    /\ queue = <<>>
    /\ stop_event
    /\ LoopHead(w, TRUE)
    /\ UNCHANGED <<queue, unfinished, output_queue, stop_event, dirpath,
                   get_output, output, traversal, dpc, seen, yielded, failed>>
    /\ UNCHANGED treevars

\* _listdir has returned or raised.  On success the tuple is put on the
\* output queue and the subdirectories on the task queue; on an exception
\* the stop flag is set.  Either way task_done() follows, then the loop head.
Listed(w, raises) ==
    /\ WalkRunning
    /\ wpc[w] = "list"
    /\ IF raises
       THEN /\ stop_event' = TRUE
            /\ failed' = TRUE
            /\ unfinished' = unfinished - 1
            /\ LoopHead(w, TRUE)
            /\ UNCHANGED <<queue, output_queue>>
       ELSE /\ output_queue' = Append(output_queue, dirpath[w])
            /\ queue' = queue \o Subdirs(dirpath[w])
            /\ unfinished' = unfinished + Len(Subdirs(dirpath[w])) - 1
            /\ LoopHead(w, stop_event)
            /\ UNCHANGED <<stop_event, failed>>
    /\ dirpath' = [dirpath EXCEPT ![w] = 0]
    /\ UNCHANGED <<get_output, output, traversal, dpc, seen, yielded>>
    /\ UNCHANGED treevars

\* The listing of failDir raises, every other listing returns.
WorkerListed(w) == Listed(w, dirpath[w] = failDir)

\* CancelledError reaches a worker at the point where it is suspended.
WorkerCancelled(w) ==
    /\ WalkCleanup
    /\ w \in Workers
    /\ ~WorkerDone(w)
    /\ wpc' = [wpc EXCEPT ![w] =
                   IF wpc[w] \in {"wait", "list"} /\ ReleaseRaises
                   THEN "raised" ELSE "done"]
    /\ dirpath' = [dirpath EXCEPT ![w] = 0]
    /\ unfinished' = IF wpc[w] = "list" THEN unfinished - 1 ELSE unfinished
    /\ IF wpc[w] = "start"
       THEN UNCHANGED poolvars
       ELSE IF wpc[w] = "acquire"
            THEN /\ pc' = [pc EXCEPT ![w] = "idle"]
                 /\ waitq' = [waitq EXCEPT ![w] = 0]
                 /\ UNCHANGED <<closed, cur, queues, tracked, lock, held, last,
                                connectCount, closeCalls, pooled>>
            ELSE \E c \in held[w] : Release(w, c)
    /\ UNCHANGED <<queue, output_queue, stop_event, get_output, output,
                   traversal, dpc, seen, yielded, failed>>
    /\ UNCHANGED treevars

\* ------------------------------------------- the join and the output tasks
\* queue.join() returns once every queued directory had its task_done().
TraversalDone ==
    /\ WalkRunning
    /\ ~traversal
    /\ unfinished = 0
    /\ traversal' = TRUE
    /\ UNCHANGED <<queue, unfinished, output_queue, stop_event, wpc, dirpath,
                   get_output, output, dpc, seen, yielded, failed>>
    /\ UNCHANGED <<poolvars, treevars>>

\* The pending get_output_task can take an item.
OutputReady == get_output = "pending" /\ output_queue # <<>>

\* get_output_task runs: output_queue.get() returns the head.
GetOutput ==
    /\ WalkRunning
    /\ OutputReady
    /\ get_output' = "done"
    /\ output' = Head(output_queue)
    /\ output_queue' = Tail(output_queue)
    /\ UNCHANGED <<queue, unfinished, stop_event, wpc, dirpath, traversal, dpc,
                   seen, yielded, failed>>
    /\ UNCHANGED <<poolvars, treevars>>

\* ------------------------------------------------------------ the driver
\* The finally block: set the stop flag, cancel what is not done, gather.
Finally(g) ==
    /\ stop_event' = TRUE
    /\ get_output' = IF g = "pending" THEN "cancelled" ELSE g
    /\ dpc' = "cleanup"
    /\ UNCHANGED <<output_queue, yielded>>

\* "while not output_queue.empty()": yield the head, or fall into finally.
Drain(g) ==
    IF output_queue # <<>>
    THEN /\ yielded' = Append(yielded, Head(output_queue))
         /\ output_queue' = Tail(output_queue)
         /\ dpc' = "yield_drain"
         /\ get_output' = g
         /\ UNCHANGED stop_event
    ELSE Finally(g)

\* After the while loop: yield the result of a finished get_output_task,
\* then drain.
AfterLoop(g) ==
    IF g = "done"
    THEN /\ yielded' = Append(yielded, output)
         /\ dpc' = "yield_final"
         /\ get_output' = "consumed"
         /\ UNCHANGED <<output_queue, stop_event>>
    ELSE Drain(g)

\* asyncio.wait returns with every pending task that is done.  The for loop
\* visits them in set order: reaching get_output_task before traversal_task
\* yields its result; reaching traversal_task first breaks out.  A
\* get_output_task that can take an item has run before the driver resumes.
DriverWake ==
    /\ dpc = "wait"
    /\ ~OutputReady
    /\ \/ get_output = "done"
       \/ traversal
       \/ \E w \in Workers \ seen : WorkerDone(w)
    /\ seen' = seen \cup {w \in Workers : WorkerDone(w)}
    /\ \/ /\ get_output = "done"
          /\ yielded' = Append(yielded, output)
          /\ dpc' = "yield_loop"
          /\ get_output' = "consumed"
          /\ UNCHANGED <<output_queue, stop_event>>
       \/ /\ traversal
          /\ AfterLoop(get_output)
       \/ /\ get_output # "done"
          /\ ~traversal
          /\ UNCHANGED <<yielded, dpc, get_output, output_queue, stop_event>>
       \/ \* a finished worker task carries an exception: RuntimeError
          /\ \E w \in Workers \ seen : wpc[w] = "raised"
          /\ stop_event' = TRUE
          /\ get_output' = IF get_output = "pending" THEN "cancelled"
                                                     ELSE get_output
          /\ dpc' = "cleanup_raised"
          /\ UNCHANGED <<output_queue, yielded>>
    /\ UNCHANGED <<queue, unfinished, wpc, dirpath, output, traversal, failed>>
    /\ UNCHANGED <<poolvars, treevars>>

\* The consumer asks for the next item after a yield inside the for loop:
\* get_output_task is replaced, then "if traversal_task.done(): break".
ResumeLoop ==
    /\ dpc = "yield_loop"
    /\ IF traversal
       THEN AfterLoop("pending")
       ELSE /\ get_output' = "pending"
            /\ dpc' = "wait"
            /\ UNCHANGED <<yielded, output_queue, stop_event>>
    /\ UNCHANGED <<queue, unfinished, wpc, dirpath, output, traversal, seen,
                   failed>>
    /\ UNCHANGED <<poolvars, treevars>>

\* The consumer asks for the next item after a yield behind the loop.
ResumeDrain ==
    /\ dpc \in {"yield_final", "yield_drain"}
    /\ Drain(get_output)
    /\ UNCHANGED <<queue, unfinished, wpc, dirpath, output, traversal, seen,
                   failed>>
    /\ UNCHANGED <<poolvars, treevars>>

\* The gather of the cancelled tasks has returned: the iteration ends.
DriverDone ==
    /\ WalkCleanup
    /\ \A w \in Workers : WorkerDone(w)
    /\ dpc' = IF dpc = "cleanup" THEN "returned"
              ELSE IF dpc = "cleanup_stopped" THEN "stopped" ELSE "raised"
    /\ UNCHANGED <<queue, unfinished, output_queue, stop_event, wpc, dirpath,
                   get_output, output, traversal, seen, yielded, failed>>
    /\ UNCHANGED <<poolvars, treevars>>

\* No coroutine is cancelled in the middle of a blocking call.
ThreadsIdle == UNCHANGED stopvars

\* No other method of the file system is called during a walk.
FsIdle == UNCHANGED fsvars

NextWalk ==
    \/ StartWalk /\ ThreadsIdle /\ FsIdle
    \/ \E w \in Workers : WorkerStart(w) /\ ThreadsIdle /\ FsIdle
    \/ \E w \in Workers : WorkerAcquired(w) /\ ThreadsIdle /\ FsIdle
    \/ \E w \in Workers : WorkerDequeue(w) /\ ThreadsIdle /\ FsIdle
    \/ \E w \in Workers : WorkerTimeout(w) /\ ThreadsIdle /\ FsIdle
    \/ \E w \in Workers : WorkerListed(w) /\ ThreadsIdle /\ FsIdle
    \/ \E w \in Workers : WorkerCancelled(w) /\ ThreadsIdle /\ FsIdle
    \/ TraversalDone /\ ThreadsIdle /\ FsIdle
    \/ GetOutput /\ ThreadsIdle /\ FsIdle
    \/ DriverWake /\ ThreadsIdle /\ FsIdle
    \/ ResumeLoop /\ ThreadsIdle /\ FsIdle
    \/ ResumeDrain /\ ThreadsIdle /\ FsIdle
    \/ DriverDone /\ ThreadsIdle /\ FsIdle

SpecWalk == InitWalk /\ [][NextWalk]_vars

\* The event loop runs a task that is ready, a timeout expires, the consumer
\* asks for the next item: a step that can be taken is taken at last.
SpecWalkLive == InitWalk /\ [][NextWalk]_vars /\ WF_vars(NextWalk)

\* ------------------------------------------------- a walk stopped early
\* The consumer leaves its "async for" at a yield (the generator is closed:
\* GeneratorExit at the yield), or its coroutine is cancelled while the
\* generator awaits asyncio.wait or the gather of its finally block
\* (CancelledError there).  Either way the finally block runs.
ConsumerStop ==
    /\ stops < MaxStops
    /\ WalkRunning \/ dpc = "cleanup"
    /\ stops' = stops + 1
    /\ stop_event' = TRUE
    /\ get_output' = IF get_output = "pending" THEN "cancelled" ELSE get_output
    /\ dpc' = "cleanup_stopped"
    /\ UNCHANGED <<queue, unfinished, output_queue, wpc, dirpath, output,
                   traversal, seen, yielded, failed, busy>>
    /\ UNCHANGED <<poolvars, treevars>>

\* A worker cancelled while it awaits run_in_executor gets CancelledError at
\* once and releases its connection; the blocking call goes on in its thread.
WorkerAbandoned(w) ==
    /\ WorkerCancelled(w)
    /\ busy' = IF wpc[w] = "list" THEN busy \cup held[w] ELSE busy
    /\ UNCHANGED stops

\* The blocking call of a cancelled coroutine returns in its thread.
ThreadDone(c) ==
    /\ c \in busy
    /\ busy' = busy \ {c}
    /\ UNCHANGED stops
    /\ UNCHANGED <<poolvars, treevars, walkvars>>

\* A listing that ran on a connection another thread was still using: both
\* threads read and write one control socket, so the listing may also raise.
WorkerListedRaced(w) ==
    /\ held[w] \cap busy # {}
    /\ Listed(w, TRUE)

\* The next walk() on the same file system, once the stopped one is over.
WalkAgain ==
    /\ dpc = "stopped"
    /\ queue' = <<1>>
    /\ unfinished' = 1
    /\ output_queue' = <<>>
    /\ stop_event' = FALSE
    /\ wpc' = [t \in Tasks |-> IF t \in Workers THEN "start" ELSE "none"]
    /\ dirpath' = [t \in Tasks |-> 0]
    /\ get_output' = "pending"
    /\ output' = 0
    /\ traversal' = FALSE
    /\ dpc' = "wait"
    /\ seen' = {}
    /\ yielded' = <<>>
    /\ failed' = FALSE
    /\ UNCHANGED <<poolvars, treevars>>

NextStop ==
    \/ StartWalk /\ ThreadsIdle /\ FsIdle
    \/ \E w \in Workers : WorkerStart(w) /\ ThreadsIdle /\ FsIdle
    \/ \E w \in Workers : WorkerAcquired(w) /\ ThreadsIdle /\ FsIdle
    \/ \E w \in Workers : WorkerDequeue(w) /\ ThreadsIdle /\ FsIdle
    \/ \E w \in Workers : WorkerTimeout(w) /\ ThreadsIdle /\ FsIdle
    \/ \E w \in Workers : WorkerListed(w) /\ ThreadsIdle /\ FsIdle
    \/ \E w \in Workers : WorkerListedRaced(w) /\ ThreadsIdle /\ FsIdle
    \/ \E w \in Workers : WorkerAbandoned(w) /\ FsIdle
    \/ \E c \in Conn : ThreadDone(c) /\ FsIdle
    \/ TraversalDone /\ ThreadsIdle /\ FsIdle
    \/ GetOutput /\ ThreadsIdle /\ FsIdle
    \/ DriverWake /\ ThreadsIdle /\ FsIdle
    \/ ResumeLoop /\ ThreadsIdle /\ FsIdle
    \/ ResumeDrain /\ ThreadsIdle /\ FsIdle
    \/ DriverDone /\ ThreadsIdle /\ FsIdle
    \/ ConsumerStop /\ FsIdle
    \/ WalkAgain /\ ThreadsIdle /\ FsIdle

SpecStop == InitWalk /\ [][NextStop]_vars

\* ==================================================== paths and the trie
\* An absolute path is the sequence of its segments; <<>> is "/".
Names == {"a", "b"}
RawSegs == Names \cup {"..", "."}
RawPaths == UNION {[1..n -> RawSegs] : n \in 1..MaxDepth}

Root == <<>>
Parent(p) == SubSeq(p, 1, Len(p) - 1)

\* POSIX normpath on the segments: "." (and an empty segment) is dropped,
\* ".." removes the segment before it and is dropped at the root.
RECURSIVE NormFrom(_, _)
NormFrom(raw, acc) ==
    IF raw = <<>> THEN acc
    ELSE NormFrom(Tail(raw),
                  IF Head(raw) = "." THEN acc
                  ELSE IF Head(raw) = ".."
                       THEN (IF acc = Root THEN Root ELSE Parent(acc))
                       ELSE Append(acc, Head(raw)))

normpath(raw) == NormFrom(raw, Root)

\* Every ancestor-or-self of p, the root first.
Prefixes(p) == [i \in 1..(Len(p) + 1) |-> SubSeq(p, 1, i - 1)]

\* PathTrie as the sequence of its nodes in the order they were created.
RECURSIVE AddNodes(_, _)
AddNodes(trie, ps) ==
    IF ps = <<>> THEN trie
    ELSE AddNodes(IF Head(ps) \in Range(trie) THEN trie
                                              ELSE Append(trie, Head(ps)),
                  Tail(ps))

\* PathTrie.insert: the normalized path, segment by segment.
insert(trie, raw) == AddNodes(trie, Prefixes(normpath(raw)))

\* "for path in paths: pathtrie.insert(str(path))"
RECURSIVE InsertAll(_, _)
InsertAll(trie, paths) ==
    IF paths = <<>> THEN trie
    ELSE InsertAll(insert(trie, Head(paths)), Tail(paths))

\* Variant: the children of node p in insertion order.
ChildrenInOrder(trie, p) ==
    SelectSeq(trie, LAMBDA q : Len(q) = Len(p) + 1 /\ Parent(q) = p)

\* The children of node p in the order the iteration visits them: the
\* child inserted last comes first (test_insert: "/a/b" and then "/c" are
\* enumerated as "/", "/c", "/a", "/a/b").
Children(trie, p) ==
    LET kids == SelectSeq(trie, LAMBDA q : Len(q) = Len(p) + 1 /\ Parent(q) = p)
    IN  [i \in 1..Len(kids) |-> kids[Len(kids) + 1 - i]]

\* PathTrie.__iter__: depth-first, a node before its children.
RECURSIVE Enum(_, _)
RECURSIVE EnumEach(_, _)
Enum(trie, p) == <<p>> \o EnumEach(trie, Children(trie, p))
EnumEach(trie, ps) ==
    IF ps = <<>> THEN <<>>
    ELSE Enum(trie, Head(ps)) \o EnumEach(trie, Tail(ps))

Enumeration(trie) == IF trie = <<>> THEN <<>> ELSE Enum(trie, Root)

\* makedirs: the directories it visits, "if dirpath == os.sep: continue".
MakedirsPlan(paths) ==
    SelectSeq(Enumeration(InsertAll(<<>>, paths)), LAMBDA p : p # Root)

\* ================================================= FTPFileSystem calls
\* What "except ftplib.all_errors" and "except ftplib.error_perm" catch.
all_errors ==
    {"error_reply", "error_temp", "error_perm", "error_proto", "OSError",
     "EOFError"}
error_perm == {"error_perm"}

\* The server: CWD needs the directory, MKD its parent and not itself.
Exists(d) == d = Root \/ d \in sdirs
ServerCwd(d) == IF Exists(d) THEN "ok" ELSE "error_perm"
ServerMkd(d) == IF Exists(Parent(d)) /\ ~Exists(d) THEN "ok" ELSE "error_perm"

\* The blocking call a method starts with once it has its connection.
FirstCall(op) == IF op = "rm" THEN "dele" ELSE "cwd"

\* get() and release() in one step: the head of the queue goes to its end.
Rotate(g) ==
    /\ queues' = [queues EXCEPT ![g] = QueuePut(QueueGet(@).rest, QueueGet(@).item)]
    /\ last' = "release:ok"
    /\ UNCHANGED <<closed, cur, tracked, lock, held, connectCount, closeCalls,
                   pooled>>

\* "ftp = await self._pool.get()" at the head of listdir, rm and makedirs;
\* makedirs then builds its trie.  A makedirs with no directory to visit
\* goes on to its finally block without suspending.
FsCall(t, op, plan) ==
    /\ fsop[t] = "none"
    /\ pc[t] = "idle"
    /\ held[t] = {}
    /\ IF GetRaises
       THEN /\ Get(t)
            /\ res' = "RuntimeError"
            /\ UNCHANGED <<fsop, fspc, todo>>
       ELSE IF queues[cur] = <<>>
            THEN /\ Get(t)
                 /\ fsop' = [fsop EXCEPT ![t] = op]
                 /\ fspc' = [fspc EXCEPT ![t] = "get"]
                 /\ todo' = [todo EXCEPT ![t] = plan]
                 /\ UNCHANGED res
            ELSE IF op = "makedirs" /\ plan = <<>>
                 THEN /\ Rotate(cur)
                      /\ res' = "ok"
                      /\ UNCHANGED <<pc, waitq, fsop, fspc, todo>>
                 ELSE /\ Get(t)
                      /\ fsop' = [fsop EXCEPT ![t] = op]
                      /\ fspc' = [fspc EXCEPT ![t] = FirstCall(op)]
                      /\ todo' = [todo EXCEPT ![t] = plan]
                      /\ UNCHANGED res
    /\ UNCHANGED sdirs

\* The suspended get() of a method returns.
FsGot(t) ==
    /\ fsop[t] # "none"
    /\ fspc[t] = "get"
    /\ pc[t] = "getting"
    /\ queues[waitq[t]] # <<>>
    /\ IF fsop[t] = "makedirs" /\ todo[t] = <<>>
       THEN /\ Rotate(waitq[t])
            /\ pc' = [pc EXCEPT ![t] = "idle"]
            /\ waitq' = [waitq EXCEPT ![t] = 0]
            /\ fsop' = [fsop EXCEPT ![t] = "none"]
            /\ fspc' = [fspc EXCEPT ![t] = "idle"]
            /\ res' = "ok"
       ELSE /\ GetResume(t)
            /\ fspc' = [fspc EXCEPT ![t] = FirstCall(fsop[t])]
            /\ UNCHANGED <<fsop, res>>
    /\ UNCHANGED <<sdirs, todo>>

\* Variant: the connection is released only when the method returns.
FsEndOnSuccess(t, r) ==
    /\ IF r = "ok" THEN \E c \in held[t] : Release(t, c)
                   ELSE UNCHANGED poolvars
    /\ fsop' = [fsop EXCEPT ![t] = "none"]
    /\ fspc' = [fspc EXCEPT ![t] = "idle"]
    /\ todo' = [todo EXCEPT ![t] = <<>>]
    /\ res' = r

\* "finally: await self._pool.release(ftp)", then the method returns ("ok")
\* or raises r.
FsEnd(t, r) ==
    /\ \E c \in held[t] : Release(t, c)
    /\ fsop' = [fsop EXCEPT ![t] = "none"]
    /\ fspc' = [fspc EXCEPT ![t] = "idle"]
    /\ todo' = [todo EXCEPT ![t] = <<>>]
    /\ res' = IF ReleaseRaises THEN "RuntimeError" ELSE r

\* ---------------------------------------------------------------- listdir
\* ftp.cwd(path) of _listdir has returned or raised o.
ListdirCwd(t, o) ==
    /\ fsop[t] = "listdir"
    /\ fspc[t] = "cwd"
    /\ IF o = "ok"
       THEN /\ fspc' = [fspc EXCEPT ![t] = "retr"]
            /\ UNCHANGED <<poolvars, fsop, todo, res>>
       ELSE FsEnd(t, IF o \in all_errors THEN "FTPError" ELSE o)
    /\ UNCHANGED sdirs

\* ftp.retrlines("LIST -a") has returned or raised o, or the parsing of a
\* line has raised ValueError (the unpacking of name.split(" -> ")).
ListdirRetr(t, o) ==
    /\ fsop[t] = "listdir"
    /\ fspc[t] = "retr"
    /\ FsEnd(t, IF o \in all_errors THEN "FTPError" ELSE o)
    /\ UNCHANGED sdirs

\* --------------------------------------------------------------------- rm
\* ftp.delete(path) has returned or raised o.
RmDele(t, o) ==
    /\ fsop[t] = "rm"
    /\ fspc[t] = "dele"
    /\ FsEnd(t, IF o \in all_errors THEN "FTPError" ELSE o)
    /\ UNCHANGED sdirs

\* --------------------------------------------------------------- makedirs
\* Variant: the loop ends after the first directory.
MkNextOnce(t) == FsEnd(t, "ok")

\* The for loop goes to the next directory of the trie, or ends.
MkNext(t) ==
    IF Len(todo[t]) = 1
    THEN FsEnd(t, "ok")
    ELSE /\ todo' = [todo EXCEPT ![t] = Tail(@)]
         /\ fspc' = [fspc EXCEPT ![t] = "cwd"]
         /\ UNCHANGED <<poolvars, fsop, res>>

\* Variant: a directory that exists is created all the same.
MakedirsCwdAlways(t, o) ==
    /\ fsop[t] = "makedirs"
    /\ fspc[t] = "cwd"
    /\ fspc' = [fspc EXCEPT ![t] = "mkd"]
    /\ UNCHANGED <<poolvars, fsop, todo, res>>
    /\ UNCHANGED sdirs

\* ftp.cwd(dirpath) has returned: the directory exists; or it has raised o:
\* any FTP error leads to ftp.mkd(dirpath).
MakedirsCwd(t, o) ==
    /\ fsop[t] = "makedirs"
    /\ fspc[t] = "cwd"
    /\ IF o = "ok"
       THEN MkNext(t)
       ELSE IF o \in all_errors
            THEN /\ fspc' = [fspc EXCEPT ![t] = "mkd"]
                 /\ UNCHANGED <<poolvars, fsop, todo, res>>
            ELSE FsEnd(t, o)
    /\ UNCHANGED sdirs

\* ftp.mkd(dirpath) has returned, or it has raised o: error_perm becomes
\* FTPError, anything else leaves makedirs as it is.
MakedirsMkd(t, o) ==
    /\ fsop[t] = "makedirs"
    /\ fspc[t] = "mkd"
    /\ IF o = "ok"
       THEN /\ sdirs' = sdirs \cup {Head(todo[t])}
            /\ MkNext(t)
       ELSE /\ FsEnd(t, IF o \in error_perm THEN "FTPError" ELSE o)
            /\ UNCHANGED sdirs

\* The task of the caller of makedirs and rmtree.
Maker == 1

\* ----------------------------------------------------------------- rmtree
\* The consumer of walk inside rmtree ("async for" with no await in its
\* body) is resumed before anything else runs.
AtYield == dpc \in {"yield_loop", "yield_final", "yield_drain"}

\* A directory d of the tree holds one file when d \in files; the walk
\* reports the file with the directory.  nondirs, in the order of the walk.
Nondirs == SelectSeq(yielded, LAMBDA d : d \in files)

\* dirs.pop() takes the directories from the right.
PopOrder(s) == [i \in 1..Len(s) |-> s[Len(s) + 1 - i]]

\* The server: RMD needs an empty directory, and "/" is never removed.
ServerRmd(d) ==
    IF /\ d \notin gone
       /\ d \notin files
       /\ \A e \in Dirs : parent[e] = d => e \in gone
       /\ ~(d = 1 /\ slash)
    THEN "ok"
    ELSE "error_perm"

\* "ftp = await self._pool.get()" of rmtree once a connection is there, and
\* the while loop up to its first ftp.rmd; with no directory collected the
\* finally block follows at once.
RmtreeGet ==
    /\ queues[cur] # <<>> \/ GetRaises
    /\ IF GetRaises
       THEN /\ Get(Maker)
            /\ rmpc' = "raised"
            /\ res' = "RuntimeError"
            /\ UNCHANGED <<fsop, fspc, todo>>
       ELSE IF yielded = <<>>
            THEN /\ Rotate(cur)
                 /\ rmpc' = "returned"
                 /\ res' = "ok"
                 /\ UNCHANGED <<pc, waitq, fsop, fspc, todo>>
            ELSE /\ Get(Maker)
                 /\ rmpc' = "rmd"
                 /\ todo' = [todo EXCEPT ![Maker] = PopOrder(yielded)]
                 /\ UNCHANGED <<fsop, fspc, res>>

\* The "async for" over walk has ended.  A walk that raised ends rmtree;
\* with files, asyncio.wait gets coroutines: it wraps them in tasks or, from
\* Python 3.11 on, raises TypeError; without files the directories follow.
RmtreeWalked(wraps) ==
    /\ rmpc = "walk"
    /\ dpc \in {"returned", "raised"}
    /\ IF dpc = "raised"
       THEN /\ rmpc' = "raised"
            /\ res' = "RuntimeError"
            /\ UNCHANGED <<poolvars, fsop, fspc, todo>>
       ELSE IF Nondirs # <<>>
            THEN IF wraps
                 THEN /\ rmpc' = "rm"
                      /\ fspc' = [t \in Tasks |->
                                    IF t <= Len(Nondirs) THEN "new" ELSE "idle"]
                      /\ todo' = [t \in Tasks |->
                                    IF t <= Len(Nondirs) THEN <<Nondirs[t]>>
                                                         ELSE <<>>]
                      /\ UNCHANGED <<poolvars, fsop, res>>
                 ELSE /\ rmpc' = "raised"
                      /\ res' = "TypeError"
                      /\ UNCHANGED <<poolvars, fsop, fspc, todo>>
            ELSE RmtreeGet
    /\ UNCHANGED <<sdirs, files, gone, slash>>

\* One of the rm tasks starts to run.
RmStart(t) ==
    /\ rmpc = "rm"
    /\ fspc[t] = "new"
    /\ FsCall(t, "rm", todo[t])
    /\ UNCHANGED rmvars

\* ftp.delete of an rm task: the server removes the file.
RmtreeDele(t, o) ==
    /\ rmpc = "rm"
    /\ RmDele(t, o)
    /\ files' = IF o = "ok" THEN files \ Range(todo[t]) ELSE files
    /\ UNCHANGED <<rmpc, gone, slash>>

\* asyncio.wait(ALL_COMPLETED) has returned: a task with an exception ends
\* rmtree with RuntimeError, otherwise the directories follow.
RmtreeRmDone ==
    /\ rmpc = "rm"
    /\ \A t \in Tasks : fsop[t] = "none" /\ fspc[t] = "idle"
    /\ IF Nondirs # <<>>
       THEN /\ rmpc' = "raised"
            /\ res' = "RuntimeError"
            /\ UNCHANGED <<poolvars, fsop, fspc, todo>>
       ELSE RmtreeGet
    /\ UNCHANGED <<sdirs, files, gone, slash>>

\* ftp.rmd(dirpath) has returned or raised o; the loop goes on until dirs
\* is empty, the root of the walk included.
RmtreeRmd(o) ==
    /\ rmpc = "rmd"
    /\ IF o = "ok"
       THEN /\ gone' = gone \cup {Head(todo[Maker])}
            /\ IF Len(todo[Maker]) = 1
               THEN FsEnd(Maker, "ok") /\ rmpc' = "returned"
               ELSE /\ todo' = [todo EXCEPT ![Maker] = Tail(@)]
                    /\ UNCHANGED <<poolvars, fsop, fspc, res, rmpc>>
       ELSE /\ FsEnd(Maker, IF o \in all_errors THEN "FTPError" ELSE o)
            /\ rmpc' = "raised"
            /\ UNCHANGED gone
    /\ UNCHANGED <<sdirs, files, slash>>

\* ------------------------------------------ concurrent callers of one pool
\* How a blocking call can fail besides the server's regular answer: a 5xx
\* reply (error_perm), a 4xx reply (error_temp) or a lost connection.
Faults == {"error_perm", "error_temp", "OSError"}

\* The outcomes of a blocking call whose path is left open.
Outcomes == {"ok"} \cup Faults

\* What ftp.cwd and ftp.mkd of a makedirs may return or raise.
CwdReplies(t) ==
    IF fsop[t] = "makedirs" /\ todo[t] # <<>>
    THEN {ServerCwd(Head(todo[t]))} \cup Faults
    ELSE {}
MkdReplies(t) ==
    IF fsop[t] = "makedirs" /\ todo[t] # <<>>
    THEN {ServerMkd(Head(todo[t]))} \cup Faults
    ELSE {}

\* The paths /a, /a/a, ... down to the depth bound.
Chains == {[i \in 1..n |-> "a"] : n \in 1..MaxDepth}

\* The calls leave the makedirs history as it is; no rmtree and no walk runs.
Unlogged == UNCHANGED histvars

FsOnly == UNCHANGED <<treevars, walkvars, stopvars, rmvars, ldvars>>

\* What ftp.rmd of rmtree may return or raise.
RmdReplies ==
    IF rmpc # "rmd" THEN {} ELSE {ServerRmd(Head(todo[Maker]))} \cup Faults

\* The walk inside rmtree: its consumer never suspends.
InRmtree == rmpc = "walk" /\ ~AtYield

RmFrame == UNCHANGED <<treevars, walkvars, stopvars, histvars, ldvars>>

NextFs ==
    \/ \E t \in Tasks : \E op \in {"listdir", "rm"} :
          rmpc = "none" /\ FsCall(t, op, <<>>) /\ Unlogged /\ FsOnly
    \/ \E p \in Chains \cup {<<"..">>} :
          /\ rmpc = "none"
          /\ FsCall(Maker, "makedirs", MakedirsPlan(<<p>>)) /\ Unlogged /\ FsOnly
    \/ \E t \in Tasks : FsGot(t) /\ Unlogged /\ FsOnly
    \/ \E t \in Tasks : \E o \in Outcomes :
          ListdirCwd(t, o) /\ Unlogged /\ FsOnly
    \/ \E t \in Tasks : \E o \in Outcomes \cup {"ValueError"} :
          ListdirRetr(t, o) /\ Unlogged /\ FsOnly
    \/ \E t \in Tasks : \E o \in Outcomes :
          rmpc = "none" /\ RmDele(t, o) /\ Unlogged /\ FsOnly
    \/ \E t \in Tasks : \E o \in CwdReplies(t) :
          MakedirsCwd(t, o) /\ Unlogged /\ FsOnly
    \/ \E t \in Tasks : \E o \in MkdReplies(t) :
          MakedirsMkd(t, o) /\ Unlogged /\ FsOnly
    \/ rmpc = "walk" /\ StartWalk /\ ThreadsIdle /\ FsIdle
    \/ \E w \in Workers : InRmtree /\ WorkerStart(w) /\ ThreadsIdle /\ FsIdle
    \/ \E w \in Workers : InRmtree /\ WorkerAcquired(w) /\ ThreadsIdle /\ FsIdle
    \/ \E w \in Workers : InRmtree /\ WorkerDequeue(w) /\ ThreadsIdle /\ FsIdle
    \/ \E w \in Workers : InRmtree /\ WorkerTimeout(w) /\ ThreadsIdle /\ FsIdle
    \/ \E w \in Workers : InRmtree /\ WorkerListed(w) /\ ThreadsIdle /\ FsIdle
    \/ \E w \in Workers : InRmtree /\ WorkerCancelled(w) /\ ThreadsIdle /\ FsIdle
    \/ InRmtree /\ TraversalDone /\ ThreadsIdle /\ FsIdle
    \/ InRmtree /\ GetOutput /\ ThreadsIdle /\ FsIdle
    \/ InRmtree /\ DriverWake /\ ThreadsIdle /\ FsIdle
    \/ rmpc = "walk" /\ ResumeLoop /\ ThreadsIdle /\ FsIdle
    \/ rmpc = "walk" /\ ResumeDrain /\ ThreadsIdle /\ FsIdle
    \/ InRmtree /\ DriverDone /\ ThreadsIdle /\ FsIdle
    \/ \E wraps \in BOOLEAN : RmtreeWalked(wraps) /\ RmFrame
    \/ \E t \in Tasks : RmStart(t) /\ RmFrame
    \/ \E t \in Tasks : \E o \in Outcomes : RmtreeDele(t, o) /\ RmFrame
    \/ RmtreeRmDone /\ RmFrame
    \/ \E o \in RmdReplies : RmtreeRmd(o) /\ RmFrame

\* An open pool and a server without directories besides "/": any client
\* may call listdir, rm and makedirs.
InitCalls ==
    /\ InitWalk
    /\ parent = <<0>>
    /\ failDir = 0
    /\ max_workers = NumTasks

\* An open pool and a remote tree with files: one client calls rmtree on
\* the root of the tree, which is "/" when slash holds.
InitRmtree ==
    /\ OpenPool
    /\ parent \in Trees
    /\ failDir \in 0..Len(parent)
    /\ max_workers = NumTasks
    /\ NoWalk
    /\ NoCalls
    /\ log_interval = 1
    /\ sdirs = {}
    /\ rmpc = "walk"
    /\ files \in SUBSET Dirs
    /\ slash \in BOOLEAN

SpecFs == (InitCalls \/ InitRmtree) /\ [][NextFs]_vars

\* ------------------------------------------ a loop body that calls rm
\* The task that iterates over walk(): "async for ... in ftpfs.walk(path)"
\* with "await ftpfs.rm(...)" in the loop body.
Consumer == NumTasks

\* The loop body is not inside a call of rm.
BodyDone ==
    fsop[Consumer] = "none" /\ pc[Consumer] = "idle" /\ held[Consumer] = {}

\* The walk and its consumer: at a yield the body may call rm, and the
\* consumer asks for the next item once the body has ended.
NextBody ==
    \/ StartWalk /\ ThreadsIdle /\ FsIdle
    \/ \E w \in Workers : WorkerStart(w) /\ ThreadsIdle /\ FsIdle
    \/ \E w \in Workers : WorkerAcquired(w) /\ ThreadsIdle /\ FsIdle
    \/ \E w \in Workers : WorkerDequeue(w) /\ ThreadsIdle /\ FsIdle
    \/ \E w \in Workers : WorkerTimeout(w) /\ ThreadsIdle /\ FsIdle
    \/ \E w \in Workers : WorkerListed(w) /\ ThreadsIdle /\ FsIdle
    \/ \E w \in Workers : WorkerCancelled(w) /\ ThreadsIdle /\ FsIdle
    \/ TraversalDone /\ ThreadsIdle /\ FsIdle
    \/ GetOutput /\ ThreadsIdle /\ FsIdle
    \/ DriverWake /\ ThreadsIdle /\ FsIdle
    \/ BodyDone /\ ResumeLoop /\ ThreadsIdle /\ FsIdle
    \/ BodyDone /\ ResumeDrain /\ ThreadsIdle /\ FsIdle
    \/ DriverDone /\ ThreadsIdle /\ FsIdle
    \/ AtYield /\ FsCall(Consumer, "rm", <<>>) /\ Unlogged /\ FsOnly
    \/ FsGot(Consumer) /\ Unlogged /\ FsOnly
    \/ \E o \in Outcomes : RmDele(Consumer, o) /\ Unlogged /\ FsOnly

\* An open pool, a remote tree, and at least as many workers as connections;
\* the consumer is a task of its own.
InitBody ==
    /\ InitWalk
    /\ max_workers \in max_connections..(NumTasks - 1)

SpecBody == InitBody /\ [][NextBody]_vars

\* The event loop runs a task that is ready, and resumes a get() whose
\* queue holds a connection.
SpecBodyLive ==
    /\ SpecBody
    /\ WF_vars(NextBody)
    /\ WF_vars(FsGot(Consumer) /\ Unlogged /\ FsOnly)

\* ===================================================== pool properties

\* C1: with clients that release each connection they acquired exactly
\* once, the number of checked-out connections never exceeds
\* max_connections and no connection is checked out by two callers at once.
PoolBalance ==
    /\ Cardinality(InFlight) <= max_connections
    /\ \A t \in Tasks : \A u \in Tasks : t # u => held[t] \cap held[u] = {}

\* Every connection is checked out and one more caller waits in get().
PoolExhausted ==
    /\ ~closed
    /\ Cardinality(InFlight) = max_connections
    /\ \E t \in Tasks : pc[t] = "getting" /\ waitq[t] = cur

\* The pool is open and no close() has begun closing its connections.
Serving ==
    /\ ~closed
    /\ cur >= 1
    /\ \A c \in Range(NewConns(cur)) : closeCalls[c] = 0

\* C2: right after a successful open() the ready-queue holds exactly
\* max_connections distinct connections, all tracked; while the pool stays
\* open each of them is in the ready-queue exactly once or checked out by
\* exactly one caller, so idle + in-flight = max_connections.
Conservation ==
    Serving =>
        /\ tracked = Range(NewConns(cur))
        /\ Cardinality(tracked) = max_connections
        /\ Len(queues[cur]) + Cardinality(InFlight) = max_connections
        /\ Range(queues[cur]) \cup InFlight = tracked
        /\ \A t \in Tasks : \A u \in Tasks : t # u => held[t] \cap held[u] = {}
        /\ last = "open:ok" => Len(queues[cur]) = max_connections

\* A released connection is back in the queue while another is checked out.
ConservationCase ==
    /\ Serving
    /\ last = "release:ok"
    /\ InFlight # {}
    /\ queues[cur] # <<>>

\* C3: an open() on a pool that is already open is a no-op: it performs no
\* connect, creates no connection and does not replace the ready-queue, so
\* two consecutive open() calls connect max_connections times in total.
OpenOnce ==
    /\ [](last = "open:noop" /\ cur = 1 => connectCount = max_connections)
    /\ [][\A t \in Tasks :
            (~closed /\ OwnerOpen(t)) =>
                /\ last' = "open:noop"
                /\ UNCHANGED <<connectCount, cur, queues, tracked, closed>>]_vars

\* The second of two consecutive open() calls has returned.
SecondOpenReturned ==
    /\ last = "open:noop"
    /\ cur = 1
    /\ connectCount = max_connections

\* C4: however many close() calls follow an open(), one after the other or
\* overlapping, _close_connection is invoked exactly once for each
\* connection the open() created and never twice for the same connection.
CloseOnce ==
    \A c \in Conn :
        /\ closeCalls[c] <= 1
        /\ c \notin pooled => closeCalls[c] = 0
        /\ (closed /\ c \in pooled) => closeCalls[c] = 1

\* A further close() has returned on a pool that was opened and closed.
SecondCloseReturned ==
    /\ last = "close:noop"
    /\ pooled # {}

\* C5: get() and release(c) on a pool that was never opened or that has been
\* closed raise RuntimeError, even when c is tracked, and leave the
\* ready-queue and the tracking set unchanged.
NotOpenRaises ==
    [][\A t \in Tasks :
          (closed \/ cur = 0) =>
              /\ Get(t) => (last' = "get:RuntimeError"
                            /\ UNCHANGED <<queues, tracked, held>>)
              /\ \A c \in Conn :
                    Release(t, c) => (last' = "release:RuntimeError"
                                      /\ UNCHANGED <<queues, tracked>>)]_vars

\* release() of a tracked connection has raised on a pool never opened.
TrackedReleaseRaised ==
    /\ last = "release:RuntimeError"
    /\ Foreign \in tracked
    /\ cur = 0

\* C6: when a connect job fails or the deadline passes, open() raises
\* FTPError and leaves the pool closed: the ready-queue is empty and a
\* following get() raises RuntimeError.
OpenFailureLeavesClosed ==
    last = "open:FTPError" =>
        /\ closed
        /\ queues[cur] = <<>>
        /\ GetRaises

\* An open() has failed.
OpenFailed ==
    /\ last = "open:FTPError"
    /\ cur >= 1

\* C7: once close() has returned no connection is in flight, the
\* ready-queue and the tracking set are empty, and a get() after a later
\* open() returns only connections created by that open().
CloseLeavesNothing ==
    /\ closed =>
        /\ InFlight = {}
        /\ tracked = {}
        /\ cur >= 1 => queues[cur] = <<>>
    /\ \A t \in Tasks : \A c \in held[t] : c \in Range(NewConns(cur))

\* A connection is checked out from a pool that was opened, closed and
\* opened again.
CheckedOutAfterReopen ==
    /\ ~closed
    /\ cur = 2
    /\ Range(NewConns(1)) \subseteq pooled
    /\ InFlight # {}

\* C8: release(c) on an open pool of a connection c that is not tracked
\* drops c with a warning: the ready-queue and the tracking set are
\* unchanged and c is never handed out by a get().
ForeignDropped ==
    /\ [](/\ \A t \in Tasks : Foreign \notin held[t]
          /\ \A g \in Gens : Foreign \notin Range(queues[g]))
    /\ [][\A t \in Tasks : \A c \in Conn :
            (~closed /\ cur # 0 /\ c \notin tracked /\ Release(t, c)) =>
                /\ last' = "release:untracked"
                /\ UNCHANGED <<queues, tracked>>]_vars

\* An untracked connection has been released on an open pool.
ForeignReleased ==
    /\ last = "release:untracked"
    /\ ~closed

\* C30: when open() calls run concurrently on a closed pool, initialization
\* happens once: the connections the pool has established are those of the
\* one ready-queue in use, no further queue or connect job follows a
\* successful initialization, and none of them is dropped.
OpensOnce ==
    tracked # {} =>
        /\ tracked = Range(NewConns(cur))
        /\ connectCount = cur * max_connections
        /\ tracked \subseteq Range(queues[cur]) \cup InFlight

\* close() has drained the ready-queue and its connections are being closed.
Closing == \E t \in Tasks : pc[t] = "closing"

\* C31: while close() is in progress the pool admits neither get() nor
\* release(): both fail with RuntimeError, no caller obtains a connection,
\* waits for one or puts one on a ready-queue.
ClosingRefuses ==
    [][Closing =>
          /\ \A t \in Tasks :
                 /\ held'[t] \subseteq held[t]
                 /\ pc'[t] \in {"getting", "putting"} => pc'[t] = pc[t]
          /\ \A g \in Gens : Len(queues'[g]) <= Len(queues[g])
          /\ last' # last =>
                 last' \notin {"get:ok", "release:ok", "release:untracked"}
          /\ held' # held => last' = "release:RuntimeError"]_vars

\* C38: a get() that is suspended on the ready-queue of a pool that close()
\* has closed does not stay suspended: it returns or raises.
SuspendedGetEnds ==
    \A t \in Tasks : (closed /\ pc[t] = "getting") ~> (pc[t] # "getting")

\* C39: a close() that raises because _close_connection failed has closed
\* every connection it collected and leaves the pool closed, so that the
\* next get() raises RuntimeError and the next open() initializes the pool.
FailedCloseCloses ==
    [][\A t \in Tasks :
          (pc[t] = "closing" /\ pc'[t] = "idle" /\ last' = "close:FTPError") =>
              /\ \A c \in pooled : closeCalls'[c] >= 1
              /\ closed'
              /\ GetRaises']_vars

\* C40: an rm that the consumer of a walk calls from its loop body, while
\* the walk is suspended at a yield, acquires a pooled connection at last.
BodyAcquires == (fspc[Consumer] = "get") ~> (fspc[Consumer] # "get")

\* ===================================================== walk properties

\* C9: when no listing fails, walk(root) yields exactly one tuple for every
\* directory reachable from the root, none twice and none missing, for
\* every interleaving of the workers and a consumer that may suspend
\* between items.
WalkComplete ==
    (dpc = "returned" /\ failDir = 0) =>
        /\ Len(yielded) = Len(parent)
        /\ Range(yielded) = Dirs

\* C10: when the listing of a directory fails the worker sets the stop flag
\* and the consumer's iteration raises RuntimeError instead of finishing
\* normally.
WalkFailsFast ==
    failed => (stop_event /\ dpc # "returned")

\* C29: a pooled connection is never used by two blocking FTP calls at once:
\* while the call of a cancelled coroutine is still running in its thread,
\* its connection is neither on the ready-queue nor listing for a worker.
OneCallPerConnection ==
    \A c \in busy :
        /\ c \notin Range(queues[cur])
        /\ \A w \in Workers : ~(wpc[w] = "list" /\ c \in held[w])

\* C28: walk(root) eventually finishes: it returns after the last tuple or
\* raises, also when a listing fails while directories are still queued.
WalkFinishes == <>(dpc \in {"returned", "raised"})

\* The driver waits on a join and an output task that can never finish.
Hung ==
    /\ dpc = "wait"
    /\ ~traversal
    /\ unfinished > 0
    /\ get_output = "pending"
    /\ output_queue = <<>>
    /\ \A w \in Workers : WorkerDone(w)

\* Once a stopped walk is over every worker has finished and every
\* connection is back in the ready-queue, once.
StopReleasesAll ==
    dpc = "stopped" =>
        /\ \A w \in Workers : WorkerDone(w)
        /\ InFlight = {}
        /\ Len(queues[cur]) = max_connections
        /\ Range(queues[cur]) = tracked

\* A walk that follows a stopped one does not wait forever.
FollowingWalkEnds == stops > 0 => ~Hung

Args == {<<p>> : p \in RawPaths} \cup {<<p, q>> : p, q \in RawPaths}

\* A server holds a directory only with its ancestors.
Ancestors(p) == Range(Prefixes(p)) \ {Root}
Servers == {{}} \cup {Ancestors(normpath(p)) : p \in RawPaths}

MkdirsCall ==
    /\ calls < MaxCalls
    /\ FsCall(Maker, "makedirs", MakedirsPlan(arg))
    /\ calls' = calls + 1
    /\ cmds' = <<>>
    /\ UNCHANGED <<arg, before>>

MkdirsCwd ==
    /\ fsop[Maker] = "makedirs"
    /\ fspc[Maker] = "cwd"
    /\ MakedirsCwd(Maker, ServerCwd(Head(todo[Maker])))
    /\ cmds' = Append(cmds, <<"CWD", Head(todo[Maker])>>)
    /\ UNCHANGED <<arg, before, calls>>

MkdirsMkd ==
    /\ fsop[Maker] = "makedirs"
    /\ fspc[Maker] = "mkd"
    /\ MakedirsMkd(Maker, ServerMkd(Head(todo[Maker])))
    /\ cmds' = Append(cmds, <<"MKD", Head(todo[Maker])>>)
    /\ UNCHANGED <<arg, before, calls>>

NextMkdirs ==
    \/ MkdirsCall /\ FsOnly
    \/ MkdirsCwd /\ FsOnly
    \/ MkdirsMkd /\ FsOnly

InitMkdirs ==
    /\ OpenPool
    /\ parent = <<0>>
    /\ failDir = 0
    /\ max_workers = NumTasks
    /\ NoWalk
    /\ NoLoad
    /\ log_interval = 1
    /\ fsop = [t \in Tasks |-> "none"]
    /\ fspc = [t \in Tasks |-> "idle"]
    /\ todo = [t \in Tasks |-> <<>>]
    /\ res = "none"
    /\ cmds = <<>>
    /\ calls = 0
    /\ arg \in Args
    /\ sdirs \in Servers
    /\ before = sdirs
    /\ rmpc = "none"
    /\ files = {}
    /\ gone = {}
    /\ slash = FALSE

SpecMkdirs == InitMkdirs /\ [][NextMkdirs]_vars

\* ============================================================ FTPLoader
\* A path string is the sequence of its characters.
Chars == {"/", ".", "a", "*"}
Strs(n) == UNION {[1..k -> Chars] : k \in 0..n}

EndsWith(s, c) == s # <<>> /\ s[Len(s)] = c
StartsWith(s, c) == s # <<>> /\ s[1] = c

\* The position of the last c in s, or 0.
RFind(s, c) ==
    IF \E i \in 1..Len(s) : s[i] = c
    THEN CHOOSE i \in 1..Len(s) : s[i] = c /\ \A j \in (i + 1)..Len(s) : s[j] # c
    ELSE 0

\* str.rstrip("*")
RECURSIVE RStrip(_)
RStrip(s) == IF EndsWith(s, "*") THEN RStrip(SubSeq(s, 1, Len(s) - 1)) ELSE s

\* s.split("/")
RECURSIVE Split(_)
Split(s) ==
    IF RFind(s, "/") = 0 THEN <<s>>
    ELSE Append(Split(SubSeq(s, 1, RFind(s, "/") - 1)),
                SubSeq(s, RFind(s, "/") + 1, Len(s)))

\* The parts pathlib keeps: empty segments and "." are dropped.
Parts(s) == SelectSeq(Split(s), LAMBDA g : g # <<>> /\ g # <<".">>)

\* pathlib.PurePath.name
PathName(s) == IF Parts(s) = <<>> THEN <<>> ELSE Parts(s)[Len(Parts(s))]

\* pathlib.PurePath.suffix is not empty: the last dot of the name is
\* neither its first nor its last character.
HasSuffix(name) == 1 < RFind(name, ".") /\ RFind(name, ".") < Len(name)

\* A variant that does not look at the first character of the name.
IsDirpathBySuffix(s) ==
    IF EndsWith(s, "/") THEN TRUE
    ELSE ~HasSuffix(PathName(s))

\* _is_dirpath
IsDirpath(s) ==
    IF EndsWith(s, "/") THEN TRUE
    ELSE ~(StartsWith(PathName(s), ".") \/ HasSuffix(PathName(s)))

\* os.path.basename
Basename(s) == SubSeq(s, RFind(s, "/") + 1, Len(s))

\* os.path.join(a, b) for a relative b
Join(a, b) ==
    IF a = <<>> \/ EndsWith(a, "/") THEN a \o b ELSE a \o <<"/">> \o b

\* The segments joined again: str(pathlib.PurePath(...)) with "." for none.
RECURSIVE Joined(_)
Joined(parts) ==
    IF parts = <<>> THEN <<>>
    ELSE IF Len(parts) = 1 THEN parts[1]
    ELSE Joined(SubSeq(parts, 1, Len(parts) - 1)) \o <<"/">> \o parts[Len(parts)]

\* The root of a path: "/", "//" for exactly two leading slashes, or none.
Anchor(s) ==
    IF ~StartsWith(s, "/") THEN <<>>
    ELSE IF Len(s) >= 2 /\ s[2] = "/" /\ ~(Len(s) >= 3 /\ s[3] = "/")
         THEN <<"/", "/">>
         ELSE <<"/">>

\* str(pathlib.PurePath(s))
PathStr(s) ==
    IF Anchor(s) \o Joined(Parts(s)) = <<>> THEN <<".">>
    ELSE Anchor(s) \o Joined(Parts(s))

\* str(pathlib.PurePath(s).parent)
PathParent(s) ==
    IF Parts(s) = <<>> THEN PathStr(s)
    ELSE IF Anchor(s) \o Joined(SubSeq(Parts(s), 1, Len(Parts(s)) - 1)) = <<>>
         THEN <<".">>
         ELSE Anchor(s) \o Joined(SubSeq(Parts(s), 1, Len(Parts(s)) - 1))

\* ------------------------------------------------------ batch planning
\* The dst argument: one path, or a list of paths.
Dst1(p) == [kind |-> "path", v |-> p]
DstN(l) == [kind |-> "list", v |-> l]

Planned(js) == [err |-> "none", jobs |-> js]
Rejected == [err |-> "RuntimeError", jobs |-> <<>>]

\* Batch download up to the creation of its tasks: the checks of src and
\* dst and the list of (source, destination) pairs.
DownloadPlan(src, dst) ==
    IF \E i \in 1..Len(src) : IsDirpath(src[i]) THEN Rejected
    ELSE IF dst.kind = "path"
         THEN Planned([i \in 1..Len(src) |->
                          <<src[i], Join(dst.v, Basename(src[i]))>>])
         ELSE IF Len(src) # Len(dst.v) THEN Rejected
              ELSE IF \E i \in 1..Len(dst.v) : IsDirpath(dst.v[i])
                   THEN Rejected
                   ELSE Planned([i \in 1..Len(src) |-> <<src[i], dst.v[i]>>])

\* p is a prefix of q.
IsPrefix(p, q) == Len(p) <= Len(q) /\ SubSeq(q, 1, Len(p)) = p

\* Path.is_dir(): a local file lies below path.
IsDir(path) ==
    \E i \in 1..Len(lfiles) :
        /\ Anchor(lfiles[i]) = Anchor(path)
        /\ IsPrefix(Parts(path), Parts(lfiles[i]))
        /\ Parts(path) # Parts(lfiles[i])

\* Path.is_file()
IsFile(path) == \E i \in 1..Len(lfiles) : lfiles[i] = PathStr(path)

\* What one element of src adds to sources: the files under a directory
\* (rglob), a file itself, nothing for a path that does not exist.
Expand(path) ==
    IF IsDir(path)
    THEN SelectSeq(lfiles, LAMBDA f : /\ Anchor(f) = Anchor(path)
                                      /\ IsPrefix(Parts(path), Parts(f)))
    ELSE IF IsFile(path) THEN <<PathStr(path)>>
         ELSE <<>>

RECURSIVE Sources(_)
Sources(src) ==
    IF src = <<>> THEN <<>> ELSE Expand(Head(src)) \o Sources(Tail(src))

\* os.path.commonpath, on the parts of the paths.
RECURSIVE CommonParts(_)
CommonParts(ps) ==
    IF \E i \in 1..Len(ps) : ps[i] = <<>> THEN <<>>
    ELSE IF \A i \in 1..Len(ps) : Head(ps[i]) = Head(ps[1])
         THEN <<Head(ps[1])>> \o CommonParts([i \in 1..Len(ps) |-> Tail(ps[i])])
         ELSE <<>>

CommonPath(sources) == CommonParts([i \in 1..Len(sources) |-> Parts(sources[i])])

\* "dst / source.name if source == commonpath else
\*  dst / source.relative_to(commonpath)"
UploadTarget(dst, source, common) ==
    PathStr(Join(PathStr(dst),
                 IF Parts(source) = common THEN PathName(source)
                 ELSE Joined(SubSeq(Parts(source), Len(common) + 1,
                                    Len(Parts(source))))))

\* Batch upload up to "async with FTPFileSystem": sources, the checks and
\* the list of (source, destination) pairs.
UploadPlan(src, dst) ==
    IF dst.kind = "path"
    THEN IF Sources(src) = <<>>
         THEN [err |-> "nodata", jobs |-> <<>>]
         ELSE Planned([i \in 1..Len(Sources(src)) |->
                          <<Sources(src)[i],
                            UploadTarget(dst.v, Sources(src)[i],
                                         CommonPath(Sources(src)))>>])
    ELSE IF Len(Sources(src)) # Len(dst.v) THEN Rejected
         ELSE IF \E i \in 1..Len(dst.v) : IsDirpath(dst.v[i]) THEN Rejected
              ELSE Planned([i \in 1..Len(dst.v) |->
                               <<Sources(src)[i], dst.v[i]>>])

\* ------------------------------------------------------ batch execution
\* Variant: the tasks are created before the directories are made.
UploadScheduleEarly(plan) == plan.jobs

\* What upload has scheduled when it enters "async with FTPFileSystem":
\* nothing, the tasks are created behind that block.
UploadSchedule(plan) == <<>>

\* Variant: progress is logged for every completion.
DueAlways(index) == TRUE

\* "if index % self._log_interval == 0"
Due(index) == index % log_interval = 0

Word(op) == IF op = "upload" THEN "Uploaded" ELSE "Downloaded"

Finished(op, n) ==
    <<IF op = "upload" THEN "All uploads finished"
                       ELSE "All downloads finished", n, n>>

\* The tasks are created and the as_completed loop is entered; with no
\* task the loop body never runs and the closing message follows at once.
\* A batch that ends inside "async with FTPFileSystem" closes the pool.
Schedule(op, js) ==
    /\ jobs' = js
    /\ ndone' = 0
    /\ IF js = <<>>
       THEN /\ log' = Append(log, Finished(op, 0))
            /\ ldpc' = "returned"
            /\ ldfs' = IF ldfs = "open" THEN "closed" ELSE ldfs
       ELSE /\ ldpc' = "transfers"
            /\ UNCHANGED <<log, ldfs>>
    /\ UNCHANGED lderr

\* The call raises err; the pool of an entered FTPFileSystem is closed.
Raise(err) ==
    /\ ldpc' = "raised"
    /\ lderr' = err
    /\ ldfs' = IF ldfs = "open" THEN "closed" ELSE ldfs
    /\ UNCHANGED <<jobs, ndone, log>>

\* download(src, dst) with a collection src.
DownloadMany(src, dst) ==
    /\ ldpc = "idle"
    /\ ldin' = [op |-> "download", src |-> src, dst |-> dst]
    /\ IF DownloadPlan(src, dst).err # "none"
       THEN Raise("RuntimeError")
       ELSE Schedule("download", DownloadPlan(src, dst).jobs)
    /\ UNCHANGED <<mkarg, mkres, log_interval>>

\* Variant: the trailing "*" of src is kept.
ShapeNoStrip(src, dst) == <<IsDirpath(src), IsDirpath(dst)>>

\* "match (_is_dirpath(src), _is_dirpath(dst))" behind src.rstrip("*")
Shape(src, dst) == <<IsDirpath(RStrip(src)), IsDirpath(dst)>>

\* download(src, dst) with one path src; opened tells whether the pool of
\* the FTPFileSystem could be opened.
DownloadOne(src, dst, opened) ==
    /\ ldpc = "idle"
    /\ ldin' = [op |-> "download1", src |-> src, dst |-> dst]
    /\ LET s == RStrip(src) IN
       IF Shape(src, dst) = <<FALSE, FALSE>>
       THEN IF DownloadPlan(<<s>>, DstN(<<dst>>)).err # "none"
            THEN Raise("RuntimeError")
            ELSE Schedule("download", DownloadPlan(<<s>>, DstN(<<dst>>)).jobs)
       ELSE IF Shape(src, dst) = <<FALSE, TRUE>>
       THEN IF DownloadPlan(<<s>>, Dst1(dst)).err # "none"
            THEN Raise("RuntimeError")
            ELSE Schedule("download", DownloadPlan(<<s>>, Dst1(dst)).jobs)
       ELSE IF Shape(src, dst) = <<TRUE, FALSE>>
       THEN Raise("RuntimeError")
       ELSE IF opened
            THEN /\ ldpc' = "walk"
                 /\ ldfs' = "open"
                 /\ UNCHANGED <<jobs, ndone, log, lderr>>
            ELSE Raise("FTPError")
    /\ UNCHANGED <<mkarg, mkres, log_interval>>

\* The walk over the source directory has ended: it raised, or it found
\* the files found (paths relative to src).
DownloadWalked(found, raised) ==
    /\ ldpc = "walk"
    /\ LET s == RStrip(ldin.src)
           plan == DownloadPlan(
                      [i \in 1..Len(found) |-> PathStr(Join(s, found[i]))],
                      DstN([i \in 1..Len(found) |-> Join(ldin.dst, found[i])]))
       IN  IF raised THEN Raise("RuntimeError")
           ELSE IF found = <<>>
                THEN /\ log' = Append(log, <<"No data found to download.">>)
                     /\ ldpc' = "returned"
                     /\ ldfs' = "closed"
                     /\ UNCHANGED <<jobs, ndone, lderr>>
                ELSE IF plan.err # "none" THEN Raise("RuntimeError")
                     ELSE Schedule("download", plan.jobs)
    /\ UNCHANGED <<ldin, mkarg, mkres, log_interval>>

\* upload(src, dst) with a collection src, up to the makedirs call.
UploadMany(src, dst, opened) ==
    /\ ldpc = "idle"
    /\ ldin' = [op |-> "upload", src |-> src, dst |-> dst]
    /\ LET plan == UploadPlan(src, dst) IN
       IF plan.err = "nodata"
       THEN /\ log' = Append(log, <<"No data to upload.">>)
            /\ ldpc' = "returned"
            /\ UNCHANGED <<jobs, ndone, lderr, ldfs, mkarg>>
       ELSE IF plan.err # "none"
            THEN Raise("RuntimeError") /\ UNCHANGED mkarg
            ELSE IF opened
                 THEN /\ ldpc' = "makedirs"
                      /\ ldfs' = "open"
                      /\ mkarg' = {PathParent(plan.jobs[i][2]) :
                                      i \in 1..Len(plan.jobs)}
                      /\ jobs' = UploadSchedule(plan)
                      /\ UNCHANGED <<ndone, log, lderr>>
                 ELSE Raise("FTPError") /\ UNCHANGED mkarg
    /\ UNCHANGED <<mkres, log_interval>>

\* ftpfs.makedirs(...) of upload has returned or raised o; the pool is
\* closed and, after a success, the tasks are created.
UploadMakedirs(o) ==
    /\ ldpc = "makedirs"
    /\ IF o = "ok"
       THEN /\ mkres' = "ok"
            /\ jobs' = UploadPlan(ldin.src, ldin.dst).jobs
            /\ ndone' = 0
            /\ ldfs' = "closed"
            /\ IF UploadPlan(ldin.src, ldin.dst).jobs = <<>>
               THEN /\ log' = Append(log, Finished("upload", 0))
                    /\ ldpc' = "returned"
               ELSE /\ ldpc' = "transfers"
                    /\ UNCHANGED log
            /\ UNCHANGED lderr
       ELSE /\ mkres' = o
            /\ Raise(o)
    /\ UNCHANGED <<ldin, mkarg, log_interval>>

\* Variant: a failed transfer is counted like a finished one and the loop
\* goes on.
TransferDoneGoesOn(o) ==
    /\ ldpc = "transfers"
    /\ ndone' = ndone + 1
    /\ LET op == IF ldin.op = "upload" THEN "upload" ELSE "download"
           n == Len(jobs)
           l1 == IF Due(ndone + 1)
                 THEN Append(log, <<Word(op), ndone + 1, n>>)
                 ELSE log
       IN  IF ndone + 1 = n
           THEN /\ log' = Append(l1, Finished(op, n))
                /\ ldpc' = IF o = "ok" THEN "returned" ELSE "raised"
                /\ ldfs' = IF ldfs = "open" THEN "closed" ELSE ldfs
           ELSE /\ log' = l1
                /\ UNCHANGED <<ldpc, ldfs>>
    /\ lderr' = IF o = "ok" THEN lderr ELSE o
    /\ UNCHANGED jobs
    /\ UNCHANGED <<ldin, mkarg, mkres, log_interval>>

\* "await future" of the as_completed loop: the next transfer to complete
\* has succeeded or raised o.
TransferDone(o) ==
    /\ ldpc = "transfers"
    /\ IF o = "ok"
       THEN /\ ndone' = ndone + 1
            /\ LET op == IF ldin.op = "upload" THEN "upload" ELSE "download"
                   n == Len(jobs)
                   l1 == IF Due(ndone + 1)
                         THEN Append(log, <<Word(op), ndone + 1, n>>)
                         ELSE log
               IN  IF ndone + 1 = n
                   THEN /\ log' = Append(l1, Finished(op, n))
                        /\ ldpc' = "returned"
                        /\ ldfs' = IF ldfs = "open" THEN "closed" ELSE ldfs
                   ELSE /\ log' = l1
                        /\ UNCHANGED <<ldpc, ldfs>>
            /\ UNCHANGED <<jobs, lderr>>
       ELSE Raise(o)
    /\ UNCHANGED <<ldin, mkarg, mkres, log_interval>>

\* ------------------------------------------------- one call of a loader
\* Lists of at most n elements of S.
Lists(S, n) == UNION {[1..k -> S] : k \in 0..n}

\* Arguments of the scalar download.
ScalarDsts ==
    {<<>>, <<"/">>, <<"a">>, <<"a", "/">>, <<"a", ".", "a">>, <<".", "a">>}

\* Files a walk may find below src: a name with and without extension, and
\* a file in a subdirectory.
Rel == {<<"a", ".", "a">>, <<"a">>, <<"a", "/", "a", ".", "a">>}

\* Arguments of the batch calls.
RemoteSrcs == {<<"a", ".", "a">>, <<"/", "a", ".", "a">>, <<"a">>}
LocalSrcs == {LocalFile, LocalDir, <<".", "a">>}
ListDsts == {<<"a", ".", "a">>, <<"/", "a", "/", "a", ".", "a">>, <<"a", "/">>}
BatchDsts ==
    {Dst1(<<"a">>), Dst1(<<"/">>)} \cup {DstN(l) : l \in Lists(ListDsts, MaxJobs)}

\* How a transfer and the makedirs of upload may end.
TransferOutcomes == {"ok", "FTPError"}
MakedirsOutcomes == {"ok", "FTPError", "error_temp"}

\* What no call of the loader changes by itself.
LoaderFrame ==
    UNCHANGED <<poolvars, treevars, walkvars, stopvars, sdirs, fsop, fspc,
                todo, res, histvars, rmvars, listvars, trievars, curlvars,
                setvars, purevars>>

LoadOnly == LoaderFrame /\ UNCHANGED tripvars

NextLoader ==
    \/ /\ ldpc = "idle"
       /\ \E src \in Lists(RemoteSrcs, MaxJobs) : \E dst \in BatchDsts :
             DownloadMany(src, dst) /\ LoadOnly
    \/ /\ ldpc = "idle"
       /\ \E src \in Strs(MaxLen) : \E dst \in ScalarDsts :
             \E opened \in BOOLEAN : DownloadOne(src, dst, opened) /\ LoadOnly
    \/ /\ ldpc = "walk"
       /\ \E found \in Lists(Rel, 2) : \E raised \in BOOLEAN :
             DownloadWalked(found, raised) /\ LoadOnly
    \/ /\ ldpc = "idle"
       /\ \E src \in Lists(LocalSrcs, 2) : \E dst \in BatchDsts :
             \E opened \in BOOLEAN : UploadMany(src, dst, opened) /\ LoadOnly
    \/ \E o \in MakedirsOutcomes : UploadMakedirs(o) /\ LoadOnly
    \/ \E o \in TransferOutcomes : TransferDone(o) /\ LoadOnly

\* A loader with some log interval, before its first call.
InitLoader ==
    /\ OpenPool
    /\ parent = <<0>>
    /\ failDir = 0
    /\ max_workers = NumTasks
    /\ NoWalk
    /\ NoCalls
    /\ sdirs = {}
    /\ rmpc = "none"
    /\ files = {}
    /\ slash = FALSE
    /\ log_interval \in 1..MaxInterval

SpecLoader == InitLoader /\ [][NextLoader]_vars

\* ------------------------------------------------ _listdir: LIST parsing
\* str.lstrip() and str.strip() on blanks.
RECURSIVE LStripWs(_)
LStripWs(s) == IF StartsWith(s, " ") THEN LStripWs(Tail(s)) ELSE s

RECURSIVE StripWs(_)
StripWs(s) ==
    IF EndsWith(s, " ") THEN StripWs(SubSeq(s, 1, Len(s) - 1)) ELSE LStripWs(s)

\* The position of the first occurrence of pat in s, or 0: str.find + 1.
Find(s, pat) ==
    LET at == {i \in 1..(Len(s) - Len(pat) + 1) :
                  SubSeq(s, i, i + Len(pat) - 1) = pat}
    IN  IF at = {} THEN 0 ELSE CHOOSE i \in at : \A j \in at : i <= j

\* str.split(maxsplit=n): fields separated by runs of blanks, the n + 1st
\* field is the rest of the string.
RECURSIVE SplitWs(_, _)
SplitWs(s, n) ==
    LET t == LStripWs(s)
        k == IF Find(t, <<" ">>) = 0 THEN Len(t) + 1 ELSE Find(t, <<" ">>)
    IN  IF t = <<>> THEN <<>>
        ELSE IF n = 0 THEN <<t>>
        ELSE <<SubSeq(t, 1, k - 1)>> \o SplitWs(SubSeq(t, k, Len(t)), n - 1)

Arrow == <<" ", "-", ">", " ">>

\* The width of the permission field and the number of splits.
PermLen == 10
MaxSplit == 8

\* The directory that is listed.
ListedPath == <<"/", "a">>

\* One iteration of "for entry in entries": what the line does to dirs and
\* nondirs, or the exception it raises.  list.pop() of no field raises
\* IndexError, unpacking the single element of name.split(" -> ") raises
\* ValueError.
Scan(entry) ==
    LET fields == SplitWs(StripWs(entry), MaxSplit)
        name == fields[Len(fields)]
        link == IF StartsWith(entry, "l")
                THEN SubSeq(name, 1, Find(name, Arrow) - 1)
                ELSE name
        abspath == PathStr(Join(ListedPath, link))
    IN  IF entry = <<>> \/ Len(entry) < PermLen THEN [exc |-> "none", to |-> "skip"]
        ELSE IF fields = <<>> THEN [exc |-> "IndexError", to |-> "skip"]
        ELSE IF name \in {<<".">>, <<".", ".">>} THEN [exc |-> "none", to |-> "skip"]
        ELSE IF StartsWith(entry, "l") /\ Find(name, Arrow) = 0
             THEN [exc |-> "ValueError", to |-> "skip"]
        ELSE IF StartsWith(entry, "d")
             THEN [exc |-> "none", to |-> "dirs", path |-> abspath]
             ELSE [exc |-> "none", to |-> "nondirs", path |-> abspath]

\* The for loop takes the next line.
ListdirEntry ==
    /\ nline < Len(entries)
    /\ lsexc = "none"
    /\ LET r == Scan(entries[nline + 1]) IN
          /\ lsexc' = r.exc
          /\ nline' = nline + 1
          /\ dirs' = IF r.to = "dirs" THEN Append(dirs, r.path) ELSE dirs
          /\ nondirs' = IF r.to = "nondirs" THEN Append(nondirs, r.path)
                        ELSE nondirs
    /\ UNCHANGED entries

\* LIST lines: a permission field that begins with the type, seven further
\* fields and the name; an empty line, a short line, a line of blanks and a
\* line that begins with a blank.
MaxLines == 2
Kinds == {"d", "l", "-"}
Perms(c) == <<c, "r", "w", "x", "r", "-", "x", "r", "-", "x">>
Fields ==
    <<" ", "1", " ", "a", " ", "a", " ", "1", " ", "a", " ", "1", " ", "1">>
ListedNames ==
    {<<"a">>, <<".">>, <<".", ".">>, <<"a", ".", "a">>, <<"a", " ", "a">>,
     <<"a", " ", "-", ">", " ", "a">>}
ListLine(c, name) == Perms(c) \o Fields \o <<" ">> \o name
ListLines ==
    {ListLine(c, name) : c \in Kinds, name \in ListedNames}
        \cup {<<>>, <<"e", "r", "r", "o", "r">>, [i \in 1..PermLen |-> " "],
              <<" ">> \o ListLine("d", <<"a">>)}

NextListing ==
    ListdirEntry
        /\ UNCHANGED <<poolvars, treevars, walkvars, stopvars, sdirs, fsop,
                       fspc, todo, res, histvars, rmvars, ldin, ldpc, jobs,
                       ndone, log, lderr, ldfs, mkarg, mkres, log_interval,
                       tripvars, trievars, curlvars, setvars, purevars>>

\* retrlines has returned with some lines.
InitListing ==
    /\ OpenPool
    /\ parent = <<0>>
    /\ failDir = 0
    /\ max_workers = NumTasks
    /\ NoWalk
    /\ NoBatch
    /\ NoTrie
    /\ NoCurl
    /\ NoSet
    /\ NoPure
    /\ lfiles = <<>>
    /\ NoFsCalls
    /\ log_interval = 1
    /\ sdirs = {}
    /\ rmpc = "none"
    /\ files = {}
    /\ slash = FALSE
    /\ entries \in Lists(ListLines, MaxLines)
    /\ nline = 0
    /\ dirs = <<>>
    /\ nondirs = <<>>
    /\ lsexc = "none"

SpecListing == InitListing /\ [][NextListing]_vars

\* ------------------------------------------------------ PathTrie in use
\* An input string of insert: the empty string, or an absolute path given
\* by its segments behind the leading "/".
EmptyStr == <<"">>
MaxInserts == 3
TrieInputs == {EmptyStr} \cup {<<"/">> \o r : r \in RawPaths \cup {<<>>}}

\* Variant: the empty string is inserted like "/".
PathTrieInsertEmpty(raw) ==
    /\ Len(inserted) < MaxInserts
    /\ pathtrie' = insert(pathtrie, Tail(raw))
    /\ inserted' = Append(inserted, IF raw = EmptyStr THEN EmptyStr
                                    ELSE normpath(Tail(raw)))
    /\ UNCHANGED cleared

\* PathTrie.insert(raw)
PathTrieInsert(raw) ==
    /\ Len(inserted) < MaxInserts
    /\ pathtrie' = IF raw = EmptyStr THEN pathtrie
                   ELSE insert(pathtrie, Tail(raw))
    /\ inserted' = Append(inserted, IF raw = EmptyStr THEN EmptyStr
                                    ELSE normpath(Tail(raw)))
    /\ UNCHANGED cleared

\* PathTrie.clear()
PathTrieClear ==
    /\ inserted # <<>>
    /\ ~cleared
    /\ pathtrie' = <<>>
    /\ inserted' = <<>>
    /\ cleared' = TRUE

TrieFrame ==
    UNCHANGED <<poolvars, treevars, walkvars, stopvars, sdirs, fsop, fspc,
                todo, res, histvars, rmvars, ldin, ldpc, jobs, ndone, log,
                lderr, ldfs, mkarg, mkres, log_interval, tripvars, listvars,
                curlvars, setvars, purevars>>

NextTrie ==
    \/ \E raw \in TrieInputs : PathTrieInsert(raw) /\ TrieFrame
    \/ PathTrieClear /\ TrieFrame

\* PathTrie()
InitTrie ==
    /\ OpenPool
    /\ parent = <<0>>
    /\ failDir = 0
    /\ max_workers = NumTasks
    /\ NoWalk
    /\ NoFs

SpecTrie == InitTrie /\ [][NextTrie]_vars

\* --------------------------------------------- upload, then download back
\* The local directory that is uploaded, the files it may hold (relative to
\* it: with an extension, hidden, without an extension, in a subdirectory),
\* the remote directories D and the local directory F' of the download.
TripRel ==
    <<<<"a", ".", "a">>, <<".", "a">>, <<"a", "a">>, <<"a", "/", "a", ".", "a">>>>
TripDsts == {<<"/">>, <<"/", "a">>}
TripBack == <<"a", "a">>

\* path relative to the directory base: os.path.relpath(path, base)
RelTo(base, path) ==
    Joined(SubSeq(Parts(path), Len(Parts(base)) + 1, Len(Parts(path))))

\* The files of the server below the directory d, as the walk of d reports
\* them: relative to d.
Below(d) ==
    LET all == [i \in 1..Len(TripRel) |-> PathStr(Join(d, TripRel[i]))]
        rest == {r \in remote : IsPrefix(Parts(d), Parts(r))}
        known == SelectSeq(all, LAMBDA r : r \in rest)
        other == rest \ Range(all)
        Seq1(S) == CHOOSE q \in [1..Cardinality(S) -> S] : Range(q) = S
    IN  [i \in 1..Len(known) + Cardinality(other) |->
            RelTo(d, IF i <= Len(known) THEN known[i]
                                        ELSE Seq1(other)[i - Len(known)])]

\* The caller has the result of the upload and calls again.
LoaderReturn ==
    /\ ldpc = "returned"
    /\ ldin.op = "upload"
    /\ ldpc' = "idle"
    /\ UNCHANGED <<ldin, jobs, ndone, log, lderr, ldfs, mkarg, mkres,
                   log_interval>>

\* PycURL.upload and PycURL.download of the job that completes: the server
\* stores the destination, the local file system receives it.
Transferred ==
    /\ remote' = IF ldin.op = "upload"
                 THEN remote \cup {jobs[ndone + 1][2]}
                 ELSE remote
    /\ fetched' = IF ldin.op = "upload"
                  THEN fetched
                  ELSE fetched \cup {jobs[ndone + 1][2]}
    /\ UNCHANGED lfiles

\* upload(F, D) and then download(D, F') on a server that serves every
\* request: F is given as the directory or as the list of its files.
NextTrip ==
    \/ /\ ldin.op = "none"
       /\ \E src \in {<<LocalDir>>, lfiles} : \E d \in TripDsts :
             UploadMany(src, Dst1(d), TRUE)
       /\ LoaderFrame /\ UNCHANGED tripvars
    \/ UploadMakedirs("ok") /\ LoaderFrame /\ UNCHANGED tripvars
    \/ TransferDone("ok") /\ Transferred /\ LoaderFrame
    \/ LoaderReturn /\ LoaderFrame /\ UNCHANGED tripvars
    \/ /\ ldin.op = "upload"
       /\ DownloadOne(ldin.dst.v, TripBack, TRUE)
       /\ LoaderFrame /\ UNCHANGED tripvars
    \/ /\ ldin.op = "download1"
       /\ DownloadWalked(Below(ldin.src), FALSE)
       /\ LoaderFrame /\ UNCHANGED tripvars

\* An empty server and a local directory with some files.
InitTrip ==
    /\ OpenPool
    /\ parent = <<0>>
    /\ failDir = 0
    /\ max_workers = NumTasks
    /\ NoWalk
    /\ NoBatch
    /\ NoListing
    /\ NoTrie
    /\ NoCurl
    /\ NoSet
    /\ NoPure
    /\ NoFsCalls
    /\ sdirs = {}
    /\ rmpc = "none"
    /\ files = {}
    /\ slash = FALSE
    /\ log_interval \in 1..MaxInterval
    /\ \E F \in SUBSET (1..Len(TripRel)) \ {{}} :
          lfiles = [i \in 1..Cardinality(F) |->
                       Join(LocalDir, SelectSeq(TripRel, LAMBDA r :
                           \E j \in F : TripRel[j] = r)[i])]

SpecTrip == InitTrip /\ [][NextTrip]_vars

\* ------------------------------------------- PycURL.download and upload
\* What a call can meet: whether the directory of the destination can be
\* created (download), the state of the local file (the destination of a
\* download, the source of an upload), whether libcurl accepts the extra
\* options of the connection parameters, and whether the transfer succeeds.
CurlOps == {"download", "upload"}

LocalStates == {"ok", "missing", "denied", "isdir"}

CurlInputs ==
    [op : CurlOps, dirok : BOOLEAN, file : LocalStates, options : BOOLEAN,
     transfer : BOOLEAN]

\* io.open(dst, "wb") creates a missing file; io.open(src, "rb") does not.
OpenRaises(in) ==
    IF in.op = "download"
    THEN in.file \in {"denied", "isdir"}
    ELSE in.file \in {"missing", "denied", "isdir"}

\* The call is made; download creates the directory of the destination
\* first and gives up with RuntimeError before any handle exists.
CurlCall ==
    /\ curlpc = "idle"
    /\ \E in \in CurlInputs :
          /\ curlin' = in
          /\ IF in.op = "download" /\ ~in.dirok
             THEN /\ curlres' = "RuntimeError"
                  /\ curlpc' = "ended"
             ELSE /\ curlres' = curlres
                  /\ curlpc' = "create"
    /\ UNCHANGED <<curl, closes>>

\* curl = pycurl.Curl()
CurlCreate ==
    /\ curlpc = "create"
    /\ curl' = "open"
    /\ curlpc' = "setopt"
    /\ UNCHANGED <<curlin, closes, curlres>>

\* The setopt calls, all before the try statement.  upload asks for the size
\* of the source here: os.path.getsize raises FileNotFoundError for a missing
\* file.  A rejected extra option raises pycurl.error.
CurlConfigure ==
    /\ curlpc = "setopt"
    /\ IF curlin.op = "upload" /\ curlin.file = "missing"
       THEN /\ curlres' = "FileNotFoundError"
            /\ curlpc' = "ended"
       ELSE IF ~curlin.options
       THEN /\ curlres' = "pycurl.error"
            /\ curlpc' = "ended"
       ELSE /\ curlres' = curlres
            /\ curlpc' = "open"
    /\ UNCHANGED <<curlin, curl, closes>>

\* try: with io.open(...): an OSError becomes RuntimeError.
CurlOpenFile ==
    /\ curlpc = "open"
    /\ IF OpenRaises(curlin)
       THEN /\ curlres' = "RuntimeError"
            /\ curlpc' = "finally"
       ELSE /\ curlres' = curlres
            /\ curlpc' = "perform"
    /\ UNCHANGED <<curlin, curl, closes>>

\* curl.perform(): a pycurl.error becomes FTPError.
CurlPerform ==
    /\ curlpc = "perform"
    /\ curlres' = IF curlin.transfer THEN "ok" ELSE "FTPError"
    /\ curlpc' = "finally"
    /\ UNCHANGED <<curlin, curl, closes>>

\* finally: curl.close()
CurlFinally ==
    /\ curlpc = "finally"
    /\ curl' = "closed"
    /\ closes' = closes + 1
    /\ curlpc' = "ended"
    /\ UNCHANGED <<curlin, curlres>>

CurlFrame ==
    UNCHANGED <<poolvars, treevars, walkvars, stopvars, sdirs, fsop, fspc,
                todo, res, histvars, rmvars, ldin, ldpc, jobs, ndone, log,
                lderr, ldfs, mkarg, mkres, log_interval, tripvars, listvars,
                trievars, setvars, purevars>>

NextCurl ==
    \/ CurlCall /\ CurlFrame
    \/ CurlCreate /\ CurlFrame
    \/ CurlConfigure /\ CurlFrame
    \/ CurlOpenFile /\ CurlFrame
    \/ CurlPerform /\ CurlFrame
    \/ CurlFinally /\ CurlFrame

\* PycURL(connection_parameters): no call has been made.
InitCurl ==
    /\ OpenPool
    /\ parent = <<0>>
    /\ failDir = 0
    /\ max_workers = NumTasks
    /\ NoWalk
    /\ NoFs

SpecCurl == InitCurl /\ [][NextCurl]_vars

\* ------------------------------------------------- FTPLoader.log_interval
\* Integers a caller or the environment variable PYFTPKIT_LOGGER_INTERVAL
\* can name.
Intervals == (-MaxInterval)..MaxInterval

\* The values assigned to log_interval: an int, or a float of the same
\* value, for which isinstance(value, int) is false.
IntervalValues == [int : BOOLEAN, val : Intervals]

\* __init__ stores its log_interval argument, or the class default
\* int(os.environ.get("PYFTPKIT_LOGGER_INTERVAL", 10)), as it is.
LoaderInit ==
    /\ log_interval \in Intervals
    /\ built \in {"default", "argument"}

\* loader.log_interval = value
SetLogInterval(value) ==
    /\ setarg' = <<value>>
    /\ setprev' = log_interval
    /\ IF ~value.int \/ value.val <= 0
       THEN /\ setraised' = TRUE
            /\ log_interval' = log_interval
       ELSE /\ setraised' = FALSE
            /\ log_interval' = value.val
    /\ UNCHANGED built

NextInterval ==
    /\ \E value \in IntervalValues : SetLogInterval(value)
    /\ UNCHANGED <<poolvars, treevars, walkvars, stopvars, sdirs, fsop, fspc,
                   todo, res, histvars, rmvars, ldin, ldpc, jobs, ndone, log,
                   lderr, ldfs, mkarg, mkres, tripvars, listvars, trievars,
                   curlvars, purevars>>

InitInterval ==
    /\ OpenPool
    /\ parent = <<0>>
    /\ failDir = 0
    /\ max_workers = NumTasks
    /\ NoWalk
    /\ NoFsCalls
    /\ NoBatch
    /\ NoListing
    /\ NoTrie
    /\ NoCurl
    /\ NoPure
    /\ lfiles = <<LocalFile>> \o LocalDirFiles
    /\ sdirs = {}
    /\ rmpc = "none"
    /\ files = {}
    /\ slash = FALSE
    /\ setarg = <<>>
    /\ setprev = 0
    /\ setraised = FALSE
    /\ LoaderInit

SpecInterval == InitInterval /\ [][NextInterval]_vars

\* ------------------------------------------------- calls of _is_dirpath
MaxAsks == 2

\* _is_dirpath(dpath), called again and again with the same string.
IsDirpathCall ==
    /\ Len(isdirpath) < MaxAsks
    /\ isdirpath' = Append(isdirpath, IsDirpath(dpath))
    /\ UNCHANGED <<dpath, urlin, url, environ, arguments, settings>>

PureFrame ==
    UNCHANGED <<poolvars, treevars, walkvars, stopvars, sdirs, fsop, fspc,
                todo, res, histvars, rmvars, ldin, ldpc, jobs, ndone, log,
                lderr, ldfs, mkarg, mkres, log_interval, tripvars, listvars,
                trievars, curlvars, setvars>>

NextDirpath == IsDirpathCall /\ PureFrame

\* Everything but the pure helpers, as in a fresh process.
InitPure ==
    /\ OpenPool
    /\ parent = <<0>>
    /\ failDir = 0
    /\ max_workers = NumTasks
    /\ NoWalk
    /\ NoFsCalls
    /\ NoBatch
    /\ NoListing
    /\ NoTrie
    /\ NoCurl
    /\ NoSet
    /\ lfiles = <<LocalFile>> \o LocalDirFiles
    /\ log_interval = 1
    /\ sdirs = {}
    /\ rmpc = "none"
    /\ files = {}
    /\ slash = FALSE

InitDirpath ==
    /\ InitPure
    /\ dpath \in Strs(MaxLen)
    /\ isdirpath = <<>>
    /\ urlin = [path |-> <<>>, port |-> 0]
    /\ url = <<>>
    /\ NoArguments

SpecDirpath == InitDirpath /\ [][NextDirpath]_vars

\* --------------------------------------------------- _ensure_ftp_url
\* The characters of the paths given to _ensure_ftp_url: the separator, a
\* blank, a letter and a reserved character.
UrlChars == {"/", " ", "a", "#"}

UrlStrs(n) == UNION {[1..k -> UrlChars] : k \in 0..n}

Scheme == <<"f", "t", "p", ":", "/", "/">>

\* connection_parameters.host
Host == <<"h">>

\* connection_parameters.port: the default 0, a port, and a negative number
\* assigned after validation.
Ports == {-1, 0, 21}

\* Paths with and without the scheme, and with a blank before the scheme.
UrlPaths ==
    UrlStrs(MaxLen)
        \cup {Scheme \o Host \o p : p \in UrlStrs(1)}
        \cup {<<" ">> \o Scheme \o Host}

DigitChars == <<"0", "1", "2", "3", "4", "5", "6", "7", "8", "9">>

\* str(n) for n > 0
RECURSIVE Decimal(_)
Decimal(n) ==
    IF n < 10 THEN <<DigitChars[n + 1]>>
    ELSE Append(Decimal(n \div 10), DigitChars[(n % 10) + 1])

\* The characters urllib.parse.quote(..., safe="/") leaves alone, among the
\* characters of the model.
Unreserved == {"a", "f", "t", "p", "h", "/"}

\* "%XX" of the other characters.
Escapes ==
    [c \in {" ", "#", ":"} |->
        IF c = " " THEN <<"%", "2", "0">>
        ELSE IF c = "#" THEN <<"%", "2", "3">>
        ELSE <<"%", "3", "A">>]

\* urllib.parse.quote(s, safe="/")
RECURSIVE Quote(_)
Quote(s) ==
    IF s = <<>> THEN <<>>
    ELSE (IF Head(s) \in Unreserved THEN <<Head(s)>> ELSE Escapes[Head(s)])
             \o Quote(Tail(s))

\* str.lstrip("/")
RECURSIVE LStripSlash(_)
LStripSlash(s) == IF StartsWith(s, "/") THEN LStripSlash(Tail(s)) ELSE s

\* urllib.parse.urlunparse(("ftp", netloc, path, "", "", "")): a path that
\* does not begin with "/" gets one.
Urlunparse(netloc, path) ==
    <<"f", "t", "p", ":">> \o <<"/", "/">> \o netloc
        \o (IF path # <<>> /\ path[1] # "/" THEN <<"/">> ELSE <<>>) \o path

\* A variant that strips the slashes before the blanks.
EnsureFtpUrlSlashFirst(path, port) ==
    IF IsPrefix(Scheme, path) THEN path
    ELSE LET rel == StripWs(LStripSlash(path))
             quoted == Quote(IF rel = <<>> THEN <<"/">> ELSE rel)
             netloc == IF port # 0 /\ port > 0
                       THEN Host \o <<":">> \o Decimal(port)
                       ELSE Host
         IN  Urlunparse(netloc, quoted)

\* PycURL._ensure_ftp_url
EnsureFtpUrl(path, port) ==
    IF IsPrefix(Scheme, path) THEN path
    ELSE LET rel == LStripSlash(StripWs(path))
             quoted == Quote(IF rel = <<>> THEN <<"/">> ELSE rel)
             netloc == IF port # 0 /\ port > 0
                       THEN Host \o <<":">> \o Decimal(port)
                       ELSE Host
         IN  Urlunparse(netloc, quoted)

EnsureFtpUrlCall ==
    /\ url = <<>>
    /\ url' = <<EnsureFtpUrl(urlin.path, urlin.port)>>
    /\ UNCHANGED <<dpath, isdirpath, urlin, environ, arguments, settings>>

NextUrl == EnsureFtpUrlCall /\ PureFrame

InitUrl ==
    /\ InitPure
    /\ dpath = <<>>
    /\ isdirpath = <<>>
    /\ urlin \in [path : UrlPaths, port : Ports]
    /\ url = <<>>
    /\ NoArguments

SpecUrl == InitUrl /\ [][NextUrl]_vars

\* ------------------------------------ ConnectionParameters.from_arguments
\* The defaults of the fields.
DefaultPort == 0
DefaultTimeout == 30
DefaultMaxConnections == 10
DefaultMaxWorkers == 30

\* What the environment may give and what the command line may give: each
\* key is absent or has one valid value, and the two sides differ.
EnvValues ==
    [host |-> <<"e">>, port |-> <<21>>, username |-> <<"e">>,
     password |-> <<"e">>, timeout |-> <<5>>, max_connections |-> <<2>>,
     max_workers |-> <<3>>]
ArgValues ==
    [host |-> <<"c">>, port |-> <<22>>, username |-> <<"c">>,
     password |-> <<"c">>, timeout |-> <<6>>, max_connections |-> <<4>>,
     max_workers |-> <<7>>]

Given(values) ==
    {[k \in ParameterKeys |-> IF k \in S THEN values[k] ELSE <<>>] :
        S \in SUBSET ParameterKeys}

ValidationError == [err |-> "ValidationError", v |-> NotGiven]
Validated(d) == [err |-> "none", v |-> d]

\* The constraints of the fields, applied to the values of a mapping: the
\* required fields are present, and port, max_connections and max_workers
\* are greater than 0, timeout is not negative.
ModelValidate(d) ==
    IF /\ d.host # <<>>
       /\ d.username # <<>>
       /\ d.password # <<>>
       /\ d.port[1] > 0
       /\ d.timeout[1] >= 0
       /\ d.max_connections[1] > 0
       /\ d.max_workers[1] > 0
    THEN Validated(d)
    ELSE ValidationError

\* cls(): the settings built from the environment. The fields that the
\* environment gives are validated, a default is taken as it is.
SettingsFromEnv(env) ==
    IF env.host = <<>> \/ env.username = <<>> \/ env.password = <<>>
    THEN ValidationError
    ELSE Validated(
             [host |-> env.host,
              port |-> IF env.port = <<>> THEN <<DefaultPort>> ELSE env.port,
              username |-> env.username,
              password |-> env.password,
              timeout |-> IF env.timeout = <<>> THEN <<DefaultTimeout>>
                          ELSE env.timeout,
              max_connections |->
                  IF env.max_connections = <<>>
                  THEN <<DefaultMaxConnections>> ELSE env.max_connections,
              max_workers |-> IF env.max_workers = <<>>
                              THEN <<DefaultMaxWorkers>>
                              ELSE env.max_workers])

\* settings.model_dump() | overrides: a key of overrides replaces the
\* value of the dump, and "credentials" is one key, whose value holds the
\* username and the password that the command line gives.
MergeOverrides(dump, args) ==
    [k \in ParameterKeys |->
        IF k \in {"username", "password"}
        THEN IF args.username # <<>> \/ args.password # <<>>
             THEN args[k]
             ELSE dump[k]
        ELSE IF args[k] # <<>> THEN args[k] ELSE dump[k]]

\* ConnectionParameters.from_arguments
FromArguments(env, args) ==
    IF SettingsFromEnv(env).err # "none"
    THEN ValidationError
    ELSE ModelValidate(MergeOverrides(SettingsFromEnv(env).v, args))

FromArgumentsCall ==
    /\ settings = <<>>
    /\ settings' = <<FromArguments(environ, arguments)>>
    /\ UNCHANGED <<dpath, isdirpath, urlin, url, environ, arguments>>

NextArguments == FromArgumentsCall /\ PureFrame

InitArguments ==
    /\ InitPure
    /\ dpath = <<>>
    /\ isdirpath = <<>>
    /\ urlin = [path |-> <<>>, port |-> 0]
    /\ url = <<>>
    /\ environ \in Given(EnvValues)
    /\ arguments \in Given(ArgValues)
    /\ settings = <<>>

SpecArguments == InitArguments /\ [][NextArguments]_vars

\* ------------------------------------------------ file system properties
\* No call of listdir, rm, makedirs or rmtree is in progress.
FsQuiet ==
    /\ \A t \in Tasks : fsop[t] = "none" /\ fspc[t] = "idle"
    /\ rmpc \in {"none", "returned", "raised"}

\* Every connection is in the ready-queue or with one task.
Conserved ==
    /\ Len(queues[cur]) + Cardinality(InFlight) = max_connections
    /\ \A t, u \in Tasks : t # u => held[t] \cap held[u] = {}

\* C12: listdir, makedirs, rm and rmtree return every connection they
\* acquired exactly once on every exit path: no connection is lost or put
\* twice while calls run, and when no call is in progress the ready-queue
\* holds all max_connections connections.
CallsReturnConnections ==
    /\ Conserved
    /\ FsQuiet =>
          /\ InFlight = {}
          /\ Len(queues[cur]) = max_connections
          /\ Range(queues[cur]) = tracked

\* rmtree has failed at an RMD and every connection is back.
RmtreeFailedReleased ==
    /\ rmpc = "raised"
    /\ res = "FTPError"
    /\ gone # {}
    /\ Len(queues[cur]) = max_connections

\* C13: an FTP protocol or network error raised by a blocking call of
\* listdir, rm, the RMD step of rmtree or the MKD step of makedirs reaches
\* the caller as FTPError: no call ends with a raw ftplib or OS error (a
\* failed CWD of makedirs is answered by MKD and ends no call).
ErrorsWrapped == res \notin all_errors

\* The directories makedirs(arg) asks for: every non-root ancestor-or-self
\* of each normalized path.
Wanted == UNION {Ancestors(normpath(arg[i])) : i \in 1..Len(arg)}

\* A call of makedirs has ended.
MkdirsEnded == calls > 0 /\ fsop[Maker] = "none"

\* No CWD or MKD is sent for a directory before one was sent for its parent.
ParentFirst ==
    \A i \in 1..Len(cmds) :
        \/ Parent(cmds[i][2]) = Root
        \/ \E j \in 1..(i - 1) : cmds[j][2] = Parent(cmds[i][2])

\* C14: makedirs(P) with absolute paths leaves the server with exactly the
\* directories it had before plus every non-root ancestor-or-self of each
\* normalized path of P, and attempts no directory before its parent, so
\* that no MKD is refused.
MakedirsCreatesAncestors ==
    /\ ParentFirst
    /\ MkdirsEnded => (res = "ok" /\ sdirs = before \cup Wanted)

\* makedirs of two paths has ended on a server that had some of the
\* directories and lacked others.
MakedirsMixed ==
    /\ MkdirsEnded
    /\ calls = 1
    /\ Len(arg) = 2
    /\ before # {}
    /\ Cardinality(sdirs \ before) >= 2

\* C15: a second makedirs(P) raises no error, issues no MKD and leaves the
\* server as the first call left it.
MakedirsIdempotent ==
    calls >= 2 =>
        /\ res = "ok"
        /\ \A i \in 1..Len(cmds) : cmds[i][1] # "MKD"
        /\ sdirs = before \cup Wanted

\* The second makedirs has ended after a first one that created directories.
MakedirsTwice ==
    /\ MkdirsEnded
    /\ calls = 2
    /\ Len(cmds) >= 2
    /\ sdirs # before

\* C16: after rmtree(D) has returned no file and no directory below D
\* remains and D itself is gone; for D = "/" the root stays and is empty.
RmtreeComplete ==
    rmpc = "returned" =>
        /\ files = {}
        /\ \A d \in Dirs : d \in gone \/ (d = 1 /\ slash)

\* The directory e lies below the directory d.
RECURSIVE UnderDir(_, _)
UnderDir(e, d) ==
    /\ parent[e] # 0
    /\ parent[e] = d \/ UnderDir(parent[e], d)

\* C32: rmtree issues RMD for a directory only after every file-deletion
\* task has completed and after RMD has been issued for all the directories
\* below it.
RmdAfterDescendants ==
    rmpc = "rmd" =>
        /\ \A t \in Tasks : fsop[t] # "rm"
        /\ \A e \in Dirs :
               UnderDir(e, Head(todo[Maker])) =>
                   /\ e \in Range(yielded)
                   /\ e \notin Range(todo[Maker])

\* C33: rmtree never issues RMD for "/": when the walked root is "/" the
\* root is skipped, and rmtree("/") does not end with the server's refusal
\* to remove "/".
RmtreeSkipsRoot ==
    slash =>
        /\ rmpc = "rmd" => Head(todo[Maker]) # 1
        /\ rmpc = "raised" /\ res = "FTPError" =>
               \E d \in Dirs \ {1} : d \notin gone

\* ------------------------------------------------------ loader properties
\* C17: in a batch upload no transfer is scheduled before makedirs, called
\* with the set of the parent directories of all destinations, has
\* returned; when that makedirs raises no transfer is ever started.
UploadDirsFirst ==
    ldin.op = "upload" =>
        /\ jobs # <<>> =>
              /\ mkres = "ok"
              /\ mkarg = {PathParent(jobs[i][2]) : i \in 1..Len(jobs)}
        /\ mkres \notin {"none", "ok"} => (jobs = <<>> /\ ndone = 0)

\* Two uploads into two directories run after makedirs has returned.
UploadRunning ==
    /\ ldin.op = "upload"
    /\ ldpc = "transfers"
    /\ Cardinality(mkarg) = 2

\* C18: the scalar download strips a trailing "*" from src and dispatches
\* on the two path kinds: file to file and file to directory schedule the
\* one transfer to dst, respectively dst/basename(src), without a pool;
\* directory to file raises RuntimeError with no transfer and no pool;
\* directory to directory opens the file system (or fails to) and walks
\* before any transfer, and an empty tree ends the call with the warning
\* logged and no transfer.
ScalarDownloadDispatch ==
    ldin.op = "download1" =>
        LET s == RStrip(ldin.src)
            d == ldin.dst
        IN  /\ (~IsDirpath(s) /\ ~IsDirpath(d)) =>
                  /\ jobs = <<<<s, d>>>>
                  /\ ldfs = "none"
                  /\ lderr # "RuntimeError"
            /\ (~IsDirpath(s) /\ IsDirpath(d)) =>
                  /\ jobs = <<<<s, Join(d, Basename(s))>>>>
                  /\ ldfs = "none"
                  /\ lderr # "RuntimeError"
            /\ (IsDirpath(s) /\ ~IsDirpath(d)) =>
                  /\ ldpc = "raised"
                  /\ lderr = "RuntimeError"
                  /\ jobs = <<>>
                  /\ ldfs = "none"
            /\ (IsDirpath(s) /\ IsDirpath(d)) =>
                  /\ \/ ldfs # "none"
                     \/ ldpc = "raised" /\ lderr = "FTPError" /\ jobs = <<>>
                  /\ ldpc = "walk" => (jobs = <<>> /\ log = <<>>)
                  /\ (ldpc = "returned" /\ jobs = <<>>) =>
                        (log = <<<<"No data found to download.">>>> /\ ndone = 0)

\* download("a.*", "a") has walked an empty tree.
EmptyTreeWalked ==
    /\ ldin.op = "download1"
    /\ ldin.src = <<"a", ".", "*">>
    /\ ldpc = "returned"
    /\ log = <<<<"No data found to download.">>>>

\* src and dst of a batch call do not fit: two collections of different
\* lengths, a directory path in the dst collection, or (download) a
\* directory path in src.
Misfit ==
    \/ /\ ldin.dst.kind = "list"
       /\ \/ Len(ldin.src) # Len(ldin.dst.v)
          \/ \E i \in 1..Len(ldin.dst.v) : IsDirpath(ldin.dst.v[i])
    \/ /\ ldin.op = "download"
       /\ \E i \in 1..Len(ldin.src) : IsDirpath(ldin.src[i])

\* C19: a batch download or upload whose src and dst do not fit raises
\* RuntimeError, schedules no transfer and creates no remote directory.
BatchRejects ==
    (ldin.op \in {"download", "upload"} /\ Misfit) =>
        /\ ldpc = "raised"
        /\ lderr = "RuntimeError"
        /\ jobs = <<>>
        /\ ldfs = "none"
        /\ mkres = "none"

\* The progress messages due after m of n completions.
Progress(op, m, n) ==
    [j \in 1..(m \div log_interval) |-> <<Word(op), j * log_interval, n>>]

BatchOp == IF ldin.op = "upload" THEN "upload" ELSE "download"

\* C20: while the transfers of a batch of n succeed, the log holds one
\* progress message "i / n" for every positive multiple i of log_interval
\* up to the completion count, in increasing order, and nothing else; the
\* batch returns after n completions with the one message "All ...
\* finished: n / n" at the end of the log.
ProgressLogged ==
    /\ ldpc = "transfers" =>
          /\ ndone < Len(jobs)
          /\ log = Progress(BatchOp, ndone, Len(jobs))
    /\ (ldpc = "returned" /\ jobs # <<>>) =>
          /\ ndone = Len(jobs)
          /\ log = Append(Progress(BatchOp, Len(jobs), Len(jobs)),
                          Finished(BatchOp, Len(jobs)))

\* Three downloads have succeeded with a log interval of two.
ThreeByTwo ==
    /\ ldpc = "returned"
    /\ log_interval = 2
    /\ log = <<<<"Downloaded", 2, 3>>, <<"All downloads finished", 3, 3>>>>

\* C34: in a batch, the exception of a failed transfer is raised when that
\* transfer is the next one to complete: the call ends with it, after the
\* progress messages of the completions before it only, without the closing
\* message, and nothing of the batch happens afterwards.
BatchFailsFast ==
    [][/\ (ldpc = "transfers" /\ lderr' # lderr) =>
              /\ ldpc' = "raised"
              /\ lderr' = "FTPError"
              /\ ndone' = ndone
              /\ log' = Progress(BatchOp, ndone, Len(jobs))
       /\ ldpc = "raised" =>
              /\ ldpc' = "raised"
              /\ log' = log
              /\ ndone' = ndone
              /\ lderr' = lderr]_vars

\* The third of three downloads has failed after two had succeeded.
ThirdFailed ==
    /\ ldpc = "raised"
    /\ lderr = "FTPError"
    /\ ldin.op = "download"
    /\ Len(jobs) = 3
    /\ ndone = 2
    /\ log = <<<<"Downloaded", 1, 3>>, <<"Downloaded", 2, 3>>>>

\* --------------------------------------------------------------- round trip
\* The relative paths of the files in the set S below the directory base.
RelPaths(base, S) == {RelTo(base, f) : f \in S}

\* C21: upload(F, D) followed by download(D, F') does not raise and leaves
\* in F' exactly the files of F, at the paths they have relative to the
\* local directory.
RoundTrip ==
    ldin.op = "download1" =>
        /\ ldpc # "raised"
        /\ ldpc = "returned" =>
               RelPaths(TripBack, fetched) = RelPaths(LocalDir, Range(lfiles))

DownloadTakesAll ==
    (ldin.op = "download1" /\ ldpc \notin {"idle", "walk"}) =>
        /\ ldpc # "raised"
        /\ Below(ldin.src) # <<>> =>
               Range(jobs) =
                   {<<PathStr(Join(RStrip(ldin.src), r)), Join(ldin.dst, r)>> :
                        r \in Range(Below(ldin.src))}

\* ------------------------------------------------- connection parameters
\* The value of the key k after a field-by-field override: the value of the
\* command line when it gives one, else the value of the environment.
Overridden(k) == IF arguments[k] # <<>> THEN arguments[k] ELSE environ[k]

\* C37: when host, port, username and password are each given by the
\* environment or by the command line, from_arguments returns settings in
\* which every key that either side gives has the value of the command
\* line if the command line gives it, else the value of the environment.
OverridesFieldByField ==
    (/\ settings # <<>>
     /\ \A k \in {"host", "port", "username", "password"} :
            Overridden(k) # <<>>) =>
        /\ settings[1].err = "none"
        /\ \A k \in ParameterKeys :
               Overridden(k) # <<>> => settings[1].v[k] = Overridden(k)

\* ----------------------------------------------------------- LIST parsing
\* The name of a line: its last field, for a line that begins with "l" the
\* part of it before " -> ".
NameOf(entry) ==
    LET fields == SplitWs(StripWs(entry), MaxSplit)
        name == IF fields = <<>> THEN <<>> ELSE fields[Len(fields)]
    IN  IF StartsWith(entry, "l") /\ Find(name, Arrow) # 0
        THEN SubSeq(name, 1, Find(name, Arrow) - 1)
        ELSE name

\* The lines that are dropped: empty, short, or named "." or "..".
Dropped(entry) ==
    \/ Len(entry) < PermLen
    \/ SplitWs(StripWs(entry), MaxSplit) # <<>>
          /\ SplitWs(StripWs(entry), MaxSplit)[
                 Len(SplitWs(StripWs(entry), MaxSplit))] \in {<<".">>, <<".", ".">>}

\* path/name for the lines read so far that are kept and begin (isdir) or
\* do not begin with "d", in the order of the lines.
Classified(isdir) ==
    LET kept == SelectSeq(SubSeq(entries, 1, nline),
                          LAMBDA e : ~Dropped(e) /\ (StartsWith(e, "d") <=> isdir))
    IN  [i \in 1..Len(kept) |-> PathStr(Join(ListedPath, NameOf(kept[i])))]

\* C22: the lines are classified into dirs and files as described, in the
\* order of the lines, and no line makes the loop raise.
ListdirClassifies ==
    /\ lsexc = "none"
    /\ dirs = Classified(TRUE)
    /\ nondirs = Classified(FALSE)

\* ---------------------------------------------------------------- PathTrie
\* The paths inserted since the last clear(), without the empty strings.
Paths == {inserted[i] : i \in {j \in 1..Len(inserted) : inserted[j] # EmptyStr}}

\* Every ancestor-or-self of an inserted path.
Nodes == UNION {Range(Prefixes(p)) : p \in Paths}

\* The insert that created node p.
CreatedAt(p) ==
    CHOOSE i \in 1..Len(inserted) :
        /\ inserted[i] # EmptyStr /\ p \in Range(Prefixes(inserted[i]))
        /\ \A j \in 1..(i - 1) :
              inserted[j] = EmptyStr \/ p \notin Range(Prefixes(inserted[j]))

\* The enumeration holds each ancestor-or-self of the normalized inserted
\* paths exactly once and nothing else, a parent before its descendants; an
\* empty input string adds nothing and after clear() nothing is left of
\* earlier inserts.  later tells which of two siblings comes first: the
\* one inserted later, or the one inserted earlier.
TrieOrder(later) ==
    LET e == Enumeration(pathtrie)
        place == [p \in Nodes |-> CHOOSE i \in 1..Len(e) : e[i] = p]
        made == [p \in Nodes |-> CreatedAt(p)]
    IN  /\ Range(e) = Nodes
        /\ Len(e) = Cardinality(Nodes)
        /\ \A p \in Nodes : p # Root => place[Parent(p)] < place[p]
        /\ \A p, q \in Nodes :
              (p # Root /\ q # Root /\ Parent(p) = Parent(q)
                 /\ made[p] < made[q]) =>
                    IF later THEN place[q] < place[p] ELSE place[p] < place[q]

CurlClosesAndWraps ==
    curlpc = "ended" =>
        /\ curl # "none" => curl = "closed" /\ closes = 1
        /\ curl = "none" => closes = 0
        /\ curlres \in {"ok", "FTPError", "RuntimeError"}

\* --------------------------------------------------------------- log_interval
\* C25: log_interval is a positive integer in every reachable state: the
\* setter rejects a non-integer or non-positive value and leaves the value
\* it had, and no construction yields a non-positive interval.
IntervalPositive ==
    /\ log_interval > 0
    /\ setarg # <<>> =>
          IF setarg[1].int /\ setarg[1].val > 0
          THEN ~setraised /\ log_interval = setarg[1].val
          ELSE setraised /\ log_interval = setprev

\* ---------------------------------------------------------------- _is_dirpath
\* The last component of a path that does not end with the separator: the
\* text after the last "/", once a trailing "." component is put aside.
RECURSIVE FinalComponent(_)
FinalComponent(s) ==
    IF s = <<>> THEN <<>>
    ELSE IF s[Len(s)] = "/" THEN FinalComponent(SubSeq(s, 1, Len(s) - 1))
    ELSE IF s = <<".">> \/ (Len(s) > 1 /\ s[Len(s)] = "." /\ s[Len(s) - 1] = "/")
         THEN FinalComponent(SubSeq(s, 1, Len(s) - 1))
    ELSE LET from == CHOOSE i \in 1..Len(s) :
                         /\ \A j \in i..Len(s) : s[j] # "/"
                         /\ i > 1 => s[i - 1] = "/"
         IN  SubSeq(s, from, Len(s))

\* The name has a file extension: a dot that is neither the first nor the
\* last character, with no dot after it.
HasExtension(name) ==
    \E k \in 2..(Len(name) - 1) :
        /\ name[k] = "."
        /\ \A j \in (k + 1)..Len(name) : name[j] # "."

\* C26: _is_dirpath depends on the path string only; it returns true when the
\* string ends with the separator, or when the last component has no file
\* extension and does not start with "."; otherwise false.
DirpathClassified ==
    \A i \in 1..Len(isdirpath) :
        isdirpath[i] =
            (\/ (dpath # <<>> /\ dpath[Len(dpath)] = "/")
             \/ LET name == FinalComponent(dpath)
                IN  /\ ~HasExtension(name)
                    /\ ~(name # <<>> /\ name[1] = "."))

\* '.hiddendir/' has been classified twice.
DirpathsAsked ==
    /\ dpath = <<".", "a", "/">>
    /\ isdirpath = <<TRUE, TRUE>>

\* ------------------------------------------------------------ _ensure_ftp_url
\* The path without the blanks around it.
Trimmed(p) ==
    LET inked == {i \in 1..Len(p) : p[i] # " "}
    IN  IF inked = {} THEN <<>>
        ELSE SubSeq(p, CHOOSE i \in inked : \A j \in inked : i <= j,
                       CHOOSE i \in inked : \A j \in inked : j <= i)

\* The path without the slashes it begins with.
Unslashed(p) ==
    LET other == {i \in 1..Len(p) : p[i] # "/"}
    IN  IF other = {} THEN <<>>
        ELSE SubSeq(p, CHOOSE i \in other : \A j \in other : i <= j, Len(p))

\* What a percent-encoded text stands for.
RECURSIVE Decoded(_)
Decoded(e) ==
    IF e = <<>> THEN <<>>
    ELSE IF Head(e) = "%" /\ Len(e) >= 3
    THEN LET code == SubSeq(e, 2, 3)
             c == IF code = <<"2", "0">> THEN " "
                  ELSE IF code = <<"2", "3">> THEN "#"
                  ELSE IF code = <<"3", "A">> THEN ":"
                  ELSE "?"
         IN  <<c>> \o Decoded(SubSeq(e, 4, Len(e)))
    ELSE <<Head(e)>> \o Decoded(Tail(e))

\* C27: a path that starts with ftp:// is returned unchanged; any other path
\* gives ftp://host[:port]/<path>, the path without the blanks around it and
\* then without its leading slashes, percent-encoded with "/" kept, only "/"
\* for a path that is empty by then, and ":port" present exactly when the
\* port is positive.
UrlBuilt ==
    url # <<>> =>
        IF IsPrefix(Scheme, urlin.path) THEN url[1] = urlin.path
        ELSE LET authority ==
                     Scheme \o Host
                         \o (IF urlin.port <= 0 THEN <<>>
                             ELSE <<":">> \o Decimal(urlin.port))
                         \o <<"/">>
                 rest == SubSeq(url[1], Len(authority) + 1, Len(url[1]))
             IN  /\ IsPrefix(authority, url[1])
                 /\ \A i \in 1..Len(rest) :
                        rest[i] \notin {" ", "#", ":", "?"}
                 /\ Decoded(rest) = Unslashed(Trimmed(urlin.path))

\* "/ #a" with a port: blanks stay after the leading slash is taken away.
UrlEncoded ==
    /\ urlin = [path |-> <<"/", " ", "#">>, port |-> 21]
    /\ url # <<>>
    /\ url[1] = Scheme \o Host \o <<":", "2", "1", "/">>
                    \o <<"%", "2", "0", "%", "2", "3">>

====
